---- MODULE Spec2Model ----
(***************************************************************************)
(* A model of mbed-cli (src/mbed/mbed.py): the reference grammar and URL   *)
(* canonicalisation, the update safety gate, and the tree algorithms sync, *)
(* update and publish running over a small file system of nested           *)
(* repositories.                                                           *)
(*                                                                         *)
(* Strings are sequences of tokens.  A token is one punctuation character  *)
(* (":", "/", ".", "#", "@") or a run of word characters (\w+) that no     *)
(* regular expression of the program splits on the strings the model       *)
(* builds; two adjacent word tokens read as one longer word.               *)
(***************************************************************************)
EXTENDS Naturals, Sequences, FiniteSets

VARIABLES
  \* canonicalisation and the reference round trip
  upc,       \* "start", "once", "twice", "repo", "written", "read"
  loc,       \* the locator: a remote URL as configured, or a local path
  fmt,       \* the target protocol
  rev,       \* the revision of the repository, or None
  once,      \* formaturl(loc, fmt)
  twice,     \* formaturl(once, fmt)
  rurl,      \* Repo.url of the repository
  reftext,   \* the content of its reference file
  back,      \* the Repo read back from the reference file
  owners,    \* the backends whose isurl accepts the locator
  \* the safety gate
  gpc,       \* "start", "done"
  grepo,     \* the library: is_local, url, and what dirty() and outgoing() answer
  gclean,
  gforce,
  gres,      \* what can_update returned
  \* the working tree
  dirs,      \* per directory: "none", "plain", "git" or "hg"
  libfile,   \* per library: the content of its reference file, or Absent
  remotes,   \* per repository: the configured remote URL, "" if none
  heads,     \* per repository: the checked-out revision
  modified,  \* per repository: tracked files other than references differ from HEAD
  committed, \* per library: its reference file in HEAD of the owning repository
  staged,    \* per library: its reference file is in the index of the owner
  unpushed,  \* per repository: commits the remote does not have
  detached,  \* per repository: HEAD is detached
  exclude,   \* per repository: the lines of its local ignore file
  hgrc,      \* per repository: the lines of .hg/hgrc
  \* the command being run
  stack,     \* the call stack: one frame per running sync/update/import/publish
  status,    \* "idle", "running", "ok", "failed" (error()), "crashed" (uncaught)
  events,    \* what the command did, in order
  runs,      \* how many times the command was started
  snap,      \* the reference and ignore files when the previous run ended
  fs0,       \* the working tree when the current run started
  wd,        \* the working directory of the process (os.getcwd())
  \* the program and its files
  marker,    \* the directories that hold the program's config file (.mbed)
  tpc,       \* "start", "done"
  program,   \* what Program.get_program returned
  cfg,       \* the lines of the config file
  cfg0,      \* the lines it held before the first set_cfg
  lastset    \* per key: the value of the latest set_cfg, None before the first

urlVars == <<upc, loc, fmt, rev, once, twice, rurl, reftext, back, owners>>

gateVars == <<gpc, grepo, gclean, gforce, gres>>

fsVars == <<dirs, libfile, remotes, heads, modified, committed, staged,
           unpushed, detached, exclude, hgrc>>

runVars == <<stack, status, events, runs, snap, fs0, wd>>

toolVars == <<marker, tpc, program, cfg, cfg0, lastset>>

vars == <<urlVars, gateVars, toolVars, fsVars, runVars>>

(***************************************************************************)
(* Strings                                                                 *)
(***************************************************************************)
WordTok == {"https", "http", "ssh", "git", "file", "h", "a", "p", "q", "r",
            "mbed", "org", "users", "code", "u", "n", "abc", "abcdef", "prog",
            "def", "None", "liba", "libb", "libc"}

IsWord(t) == t \in WordTok

\* the character class [\w+-]
InNameClass(t) == IsWord(t) \/ t \in {"+", "-"}

\* the character class [\w./+-]
InLocalClass(t) == InNameClass(t) \/ t \in {".", "/"}

Take(s, k) == SubSeq(s, 1, k)

Drop(s, k) == SubSeq(s, k + 1, Len(s))

StartsWith(s, p) == Len(s) >= Len(p) /\ Take(s, Len(p)) = p

EndsWith(s, p) == Len(s) >= Len(p) /\ Drop(s, Len(s) - Len(p)) = p

\* Python's None, where the program keeps a string or None
NoneV == <<"<None>">>

\* Python's truth value of a string or None
Truthy(s) == s # NoneV /\ s # <<>>

\* s.rstrip('/')
RECURSIVE RStripSlash(_)
RStripSlash(s) ==
  IF Len(s) > 0 /\ s[Len(s)] = "/" THEN RStripSlash(Take(s, Len(s) - 1)) ELSE s

\* the index of the first token of s satisfying the class, or Len(s) + 1
FirstIn(s, set) ==
  IF \E i \in 1..Len(s) : s[i] \in set
  THEN CHOOSE i \in 1..Len(s) : s[i] \in set /\ \A j \in 1..(i - 1) : s[j] \notin set
  ELSE Len(s) + 1

CountOf(s, t) == Cardinality({i \in 1..Len(s) : s[i] = t})

(***************************************************************************)
(* The regular expressions (mbed.py 72-85)                                 *)
(***************************************************************************)
NoMatch == [ok |-> FALSE, g1 |-> <<>>, g2 |-> <<>>, g3 |-> <<>>, g4 |-> <<>>, g5 |-> <<>>]

SchemeSep == <<":", "/", "/">>

\* regex_git_url = ^(git@|git\://|ssh\://|https?\://)([^/:]+)[:/](.+?)(\.git|\/?)$
\* g2 is the host, g3 the path
GitPrefixes == {<<"git", "@">>, <<"git">> \o SchemeSep, <<"ssh">> \o SchemeSep,
                <<"http">> \o SchemeSep, <<"https">> \o SchemeSep}

MatchGitUrl(s) ==
  IF \E p \in GitPrefixes : StartsWith(s, p)
  THEN LET p    == CHOOSE q \in GitPrefixes : StartsWith(s, q)
           t    == Drop(s, Len(p))
           k    == FirstIn(t, {"/", ":"})
           host == Take(t, k - 1)
           rest == Drop(t, k)
           n    == Len(rest)
           \* (.+?) is lazy: the shortest path that leaves ".git", "/" or nothing
           path == IF n >= 3 /\ EndsWith(rest, <<".", "git">>) THEN Take(rest, n - 2)
                   ELSE IF n >= 2 /\ rest[n] = "/" THEN Take(rest, n - 1)
                   ELSE rest
       IN  IF k >= 2 /\ k <= Len(t) /\ n >= 1
           THEN [NoMatch EXCEPT !.ok = TRUE, !.g2 = host, !.g3 = path]
           ELSE NoMatch
  ELSE NoMatch

\* regex_hg_url = ^(file|ssh|https?)://([^/:]+)/([^/]+)/?([^/]+?)?$
\* g2 is the host, g3 the first path segment
HgSchemes == {"file", "ssh", "http", "https"}

MatchHgUrl(s) ==
  IF Len(s) >= 4 /\ s[1] \in HgSchemes /\ SubSeq(s, 2, 4) = SchemeSep
  THEN LET t    == Drop(s, 4)
           k    == FirstIn(t, {"/", ":"})
           host == Take(t, k - 1)
           rest == Drop(t, k)
           j    == FirstIn(rest, {"/"})
       IN  IF k >= 2 /\ k <= Len(t) /\ t[k] = "/"
              /\ Len(rest) >= 1 /\ j >= 2 /\ CountOf(rest, "/") <= 1
           THEN [NoMatch EXCEPT !.ok = TRUE, !.g2 = host, !.g3 = Take(rest, j - 1)]
           ELSE NoMatch
  ELSE NoMatch

\* regex_mbed_url = ^(https?)://([\w\-\.]*mbed\.(co\.uk|org|com))/(users|teams)/
\*                   ([\w\-]{1,32})/(repos|code)/([\w\-]+)/?$
\* g1 host, g2 users|teams, g3 the user, g4 repos|code, g5 the name
\* (the program's groups 2, 4, 5, 6 and 7); words are at most 32 characters.
IsMbedHost(hst) ==
  /\ \A i \in 1..Len(hst) : IsWord(hst[i]) \/ hst[i] \in {"-", "."}
  /\ \/ EndsWith(hst, <<"mbed", ".", "org">>)
     \/ EndsWith(hst, <<"mbed", ".", "com">>)
     \/ EndsWith(hst, <<"mbed", ".", "co", ".", "uk">>)

IsDashWord(seg) == Len(seg) >= 1 /\ \A i \in 1..Len(seg) : IsWord(seg[i]) \/ seg[i] = "-"

MatchMbedUrl(s) ==
  IF Len(s) >= 4 /\ s[1] \in {"http", "https"} /\ SubSeq(s, 2, 4) = SchemeSep
  THEN LET t   == Drop(s, 4)
           k   == FirstIn(t, {"/"})
           hst == Take(t, k - 1)
           r1  == Drop(t, k)
           \* users|teams "/" user "/" repos|code "/" name ["/"]
           k2  == FirstIn(Drop(r1, 2), {"/"})
           usr == Take(Drop(r1, 2), k2 - 1)
           r2  == Drop(Drop(r1, 2), k2)
           r3  == Drop(r2, 2)
           nm  == IF Len(r3) >= 1 /\ r3[Len(r3)] = "/" THEN Take(r3, Len(r3) - 1) ELSE r3
       IN  IF /\ k <= Len(t) /\ IsMbedHost(hst)
              /\ Len(r1) >= 2 /\ r1[1] \in {"users", "teams"} /\ r1[2] = "/"
              /\ k2 <= Len(Drop(r1, 2)) /\ IsDashWord(usr)
              /\ Len(r2) >= 2 /\ r2[1] \in {"repos", "code"} /\ r2[2] = "/"
              /\ IsDashWord(nm)
           THEN [ok |-> TRUE, g1 |-> hst, g2 |-> <<r1[1]>>, g3 |-> usr,
                 g4 |-> <<r2[1]>>, g5 |-> nm]
           ELSE NoMatch
  ELSE NoMatch

\* the tokens outside [\w+-], and those outside \w
NotNameClass == {"/", ".", "#", ":", "@"}

NotWord == NotNameClass \cup {"+", "-"}

\* the tail of regex_url_ref after ".*/":  ([\w+-]+)(?:\.\w+)?)/?(?:#(.*))?$
\* ok, the length of name plus extension, the name, the revision (None if no '#')
UrlRefTail(t) ==
  LET nlen == FirstIn(t, NotNameClass) - 1
      t1   == Drop(t, nlen)
      wlen == FirstIn(Drop(t1, 1), NotWord) - 1
      ext  == IF Len(t1) >= 2 /\ t1[1] = "." /\ wlen >= 1 THEN 1 + wlen ELSE 0
      t2   == Drop(t1, ext)
      t3   == IF Len(t2) >= 1 /\ t2[1] = "/" THEN Drop(t2, 1) ELSE t2
  IN  [ok   |-> nlen >= 1 /\ (t3 = <<>> \/ t3[1] = "#"),
       len  |-> nlen + ext,
       name |-> Take(t, nlen),
       rev  |-> IF t3 # <<>> /\ t3[1] = "#" THEN Drop(t3, 1) ELSE NoneV]

\* regex_url_ref = ^(.*/([\w+-]+)(?:\.\w+)?)/?(?:#(.*))?$
\* ".*" is greedy: the last "/" after which the tail matches
MatchUrlRef(s) ==
  LET cand == {i \in 1..Len(s) : s[i] = "/" /\ UrlRefTail(Drop(s, i)).ok}
  IN  IF cand = {} THEN NoMatch
      ELSE LET i == CHOOSE c \in cand : \A d \in cand : d <= c
               m == UrlRefTail(Drop(s, i))
           IN  [NoMatch EXCEPT !.ok = TRUE, !.g1 = Take(s, i + m.len),
                               !.g2 = m.name, !.g3 = m.rev]

\* regex_local_ref = ^([\w.+-][\w./+-]*?)/?(?:#(.*))?$
MatchLocalRef(s) ==
  LET h    == FirstIn(s, {"#"})
      body == Take(s, h - 1)
      n    == Len(body)
  IN  IF n >= 1 /\ body[1] # "/" /\ \A i \in 1..n : InLocalClass(body[i])
      THEN [NoMatch EXCEPT !.ok = TRUE,
              !.g1 = IF n >= 2 /\ body[n] = "/" THEN Take(body, n - 1) ELSE body,
              !.g2 = IF h <= Len(s) THEN Drop(s, h) ELSE NoneV]
      ELSE NoMatch

(***************************************************************************)
(* formaturl (mbed.py 878-904)                                             *)
(***************************************************************************)
Scheme(format) == IF format \in {"ssh", "http"} THEN format ELSE "https"

\* "%s" % url
Str(url) == IF url = NoneV THEN <<"None">> ELSE url

\* the branches of formaturl on the three matches of the url s
formaturl_of(s, mm, mg, mh, format) ==
  IF mm.ok
  THEN <<(IF format = "http" THEN "http" ELSE "https")>> \o SchemeSep \o mm.g1
         \o <<"/">> \o mm.g2 \o <<"/">> \o mm.g3 \o <<"/">> \o mm.g4 \o <<"/">> \o mm.g5
  ELSE IF mg.ok
  THEN <<Scheme(format)>> \o SchemeSep \o mg.g2 \o <<"/">> \o mg.g3
         \o (IF format = "ssh" THEN <<".", "git">> ELSE <<>>)
  ELSE IF mh.ok
  THEN <<Scheme(format)>> \o SchemeSep \o mh.g2 \o <<"/">> \o mh.g3
  ELSE s

formaturl(url, format) ==
  formaturl_of(Str(url), MatchMbedUrl(Str(url)), MatchGitUrl(Str(url)),
               MatchHgUrl(Str(url)), format)

(***************************************************************************)
(* Repo.fromurl, Repo.fromlib and Repo.fullurl (mbed.py 532-562, 640-644)  *)
(***************************************************************************)
\* Repo.fromurl: the url, the revision and is_local of the Repo built from a
\* reference; ok is FALSE where the program ends with "Invalid repository"
fromurl_of(ml, mu) ==
  IF ml.ok THEN [ok |-> TRUE, url |-> ml.g1, hash |-> ml.g2, is_local |-> TRUE]
  ELSE IF mu.ok
  THEN [ok |-> TRUE, url |-> formaturl(mu.g1, "default"), hash |-> mu.g3,
        is_local |-> FALSE]
  ELSE [ok |-> FALSE, url |-> NoneV, hash |-> NoneV, is_local |-> FALSE]

fromurl(ref) == fromurl_of(MatchLocalRef(ref), MatchUrlRef(ref))

\* Repo.fromlib: the reference file holds one line of fewer than 200
\* characters, which fromurl strips
fromlib(text) == fromurl(text)

\* Repo.fullurl: None when the url is empty or None
fullurl(url, hash) ==
  IF Truthy(url)
  THEN RStripSlash(url) \o <<"/">> \o (IF Truthy(hash) THEN <<"#">> \o hash ELSE <<>>)
  ELSE NoneV

(***************************************************************************)
(* The locators the model draws from                                       *)
(***************************************************************************)
Prefixes == GitPrefixes \cup {<<"file">> \o SchemeSep}

Hosts == {<<"h">>, <<"mbed", ".", "org">>}

Paths == {<<"a">>, <<"a", "/", "p">>, <<"a", "/", "p", ".", "q">>,
          <<"a", "/", "p", ".", "q", ".", "r">>,
          <<"users", "/", "u", "/", "code", "/", "n">>}

Suffixes == {<<>>, <<"/">>, <<".", "git">>, <<".", "git", "/">>}

\* scheme://host/path, and the scp form git@host:path
Locators ==
  {pre \o hst \o <<(IF pre = <<"git", "@">> THEN ":" ELSE "/")>> \o pth \o suf :
     pre \in Prefixes, hst \in Hosts, pth \in Paths, suf \in Suffixes}

LocalPaths == {<<"liba">>, <<"a", "/", "liba">>, <<"liba", ".", "q">>}

Formats == {"ssh", "http", "https", "default"}

\* a locator one of the three URL grammars matches
MatchesGrammar(s) == MatchMbedUrl(s).ok \/ MatchGitUrl(s).ok \/ MatchHgUrl(s).ok

(***************************************************************************)
(* Repo.can_update (mbed.py 724-740)                                       *)
(***************************************************************************)
\* the mutant: --force also overrides the uncommitted-changes test
can_update_force_discards(repo, clean, force) ==
  IF (repo.is_local \/ repo.url = NoneV) /\ ~force THEN [ok |-> FALSE, err |-> "local"]
  ELSE IF ~clean /\ ~force /\ repo.dirty THEN [ok |-> FALSE, err |-> "uncommitted"]
  ELSE IF ~force /\ repo.outgoing THEN [ok |-> FALSE, err |-> "unpublished"]
  ELSE [ok |-> TRUE, err |-> "OK"]

\* err names the message: "local" (Preserving local library), "uncommitted"
\* (Uncommitted changes), "unpublished" (Unpublished changes)
can_update(repo, clean, force) ==
  IF (repo.is_local \/ repo.url = NoneV) /\ ~force THEN [ok |-> FALSE, err |-> "local"]
  ELSE IF ~clean /\ repo.dirty THEN [ok |-> FALSE, err |-> "uncommitted"]
  ELSE IF ~force /\ repo.outgoing THEN [ok |-> FALSE, err |-> "unpublished"]
  ELSE [ok |-> TRUE, err |-> "OK"]

(***************************************************************************)
(* The working tree: the program R with the libraries A and B in it and    *)
(* the library C inside A.  A library X has the directory X and, next to   *)
(* it in the parent directory, the reference file X.lib.                   *)
(***************************************************************************)
Root == "R"

Libs == {"A", "B", "C"}

Nodes == {Root} \cup Libs

Parent == [A |-> "R", B |-> "R", C |-> "A"]

\* the entries of a directory, in the order os.walk lists them
Children(d) == CASE d = "R" -> <<"A", "B">> [] d = "A" -> <<"C">> [] OTHER -> <<>>

DirName == [R |-> <<"prog">>, A |-> <<"liba">>, B |-> <<"libb">>, C |-> <<"libc">>]

\* the path of a directory below the program root
RECURSIVE PathOf(_)
PathOf(d) ==
  IF d = Root THEN <<>>
  ELSE IF Parent[d] = Root THEN DirName[d]
  ELSE PathOf(Parent[d]) \o <<"/">> \o DirName[d]

\* relpath (mbed.py 185-186): path[len(root)+1:]
relpath(root, d) ==
  IF root = Root THEN PathOf(d) ELSE Drop(PathOf(d), Len(PathOf(root)) + 1)

Absent == <<"<absent>">>

Raise == <<"<ProcessException>">>

\* revisions are written in three-character words: H0 is a full hash,
\* Take(H0, 1) its abbreviation, H1 another full hash
H0 == <<"abc", "def">>

H1 == <<"def", "abc">>

IsDir(d) == dirs[d] # "none"

\* Repo.isrepo (mbed.py 584-592)
isrepo(d) == dirs[d] \in {"git", "hg"}

\* Repo.findrepo (mbed.py 594-607): the nearest enclosing repository
RECURSIVE findrepo(_)
findrepo(d) ==
  IF isrepo(d) THEN d
  ELSE IF d = Root THEN "none"
  ELSE findrepo(Parent[d])

\* the repository whose working tree holds the reference file of library p
Owner(p) == findrepo(Parent[p])

\* Repo.getlibs (mbed.py 689-698): os.walk top-down; the references of a
\* directory are yielded first, then the walk descends into every
\* sub-directory that has no reference file next to it
\* (ds holds the directories still to be walked, the next one first)
RECURSIVE WalkLibs(_)
WalkLibs(ds) ==
  IF ds = <<>> THEN <<>>
  ELSE LET HasRef(c) == libfile[c] # Absent
           Descend(c) == IsDir(c) /\ libfile[c] = Absent
       IN  SelectSeq(Children(Head(ds)), HasRef)
             \o WalkLibs(SelectSeq(Children(Head(ds)), Descend) \o Tail(ds))

\* the Repo that Repo.fromlib builds from the reference file of p
LibOf_of(p, r) ==
  [node |-> p, ok |-> r.ok, url |-> r.url, hash |-> r.hash, is_local |-> r.is_local]

LibOf(p) == LibOf_of(p, fromlib(libfile[p]))

LibsOf(ps) == [k \in 1..Len(ps) |-> LibOf(ps[k])]

getlibs(d) == LibsOf(WalkLibs(<<d>>))

LibsValid(ls) == \A k \in 1..Len(ls) : ls[k].ok

\* Hg.geturl (288-306) and Git.geturl (481-490) under Repo.geturl (684-687):
\* "hg paths default" fails in a repository without a remote, "git remote -v"
\* prints nothing
geturl(d) ==
  IF dirs[d] = "git" THEN formaturl(remotes[d], "default")
  ELSE IF dirs[d] = "hg"
       THEN IF remotes[d] = <<>> THEN Raise ELSE formaturl(remotes[d], "default")
  ELSE NoneV

\* Hg.gethash (308-313) and Git.gethash (492-493) under Repo.gethash (679-682):
\* "git rev-parse HEAD" fails in a repository without commits
gethash(d) ==
  IF dirs[d] = "git" THEN (IF heads[d] = <<>> THEN Raise ELSE heads[d])
  ELSE IF dirs[d] = "hg" THEN heads[d]
  ELSE NoneV

\* Repo.sync (mbed.py 646-672) on the Repo of directory d whose is_local
\* was was_local: url, hash and is_local afterwards
RepoSync_of(d, was_local, u, h, ppath) ==
  IF ~IsDir(d)
  THEN [node |-> d, scm |-> "unset", url |-> NoneV, hash |-> NoneV, is_local |-> was_local]
  ELSE [node |-> d,
        scm |-> IF isrepo(d) THEN dirs[d] ELSE "None",
        url |-> IF u = Raise THEN NoneV
                ELSE IF Truthy(u) THEN u
                ELSE IF ppath # "none" THEN relpath(ppath, d) ELSE DirName[d],
        hash |-> IF h = Raise THEN NoneV ELSE h,
        is_local |-> IF u # Raise /\ ~Truthy(u) THEN TRUE ELSE was_local]

RepoSync(d, was_local) ==
  RepoSync_of(d, was_local, geturl(d), gethash(d),
              IF d = Root THEN "none" ELSE findrepo(Parent[d]))

\* Repo.fromrepo (mbed.py 564-582) on an existing repository directory
fromrepo(d) == RepoSync(d, FALSE)

(***************************************************************************)
(* The ignore files and Repo.write                                         *)
(***************************************************************************)
\* the global list ignores (mbed.py 22-69), one token per line: its first
\* two and last three lines stand for the whole list
ignores == << <<".hg">>, <<".git">>, <<"Debug">>, <<"*.py[cod]">>, <<"# subrepo ignores">> >>

HgHook == <<"ignore.local = .hg/hgignore">>

HasLine(lines, x) == \E k \in 1..Len(lines) : lines[k] = x

\* the first half of Hg.ignores and Hg.ignore (mbed.py 316-330, 340-354)
HgrcWithHook(lines) ==
  IF HasLine(lines, HgHook) THEN lines ELSE lines \o << <<"[ui]">>, HgHook >>

\* the mutant: the ignore file is opened for appending
scm_ignores_appending(scm, lines) ==
  lines \o (IF scm = "hg" THEN << <<"syntax: glob">> >> ELSE <<>>) \o ignores

\* Hg.ignores (332-337) and Git.ignores (495-497): the ignore file is opened
\* with 'w', whatever lines it held are gone
scm_ignores(scm, lines) ==
  (IF scm = "hg" THEN << <<"syntax: glob">> >> ELSE <<>>) \o ignores

\* str.replace("\\", "/")
Slashes(s) == [k \in 1..Len(s) |-> IF s[k] = "\\" THEN "/" ELSE s[k]]

\* Hg.ignore (356-368) and Git.ignore (499-509)
scm_ignore(scm, lines, file) ==
  IF HasLine(lines, file) THEN lines
  ELSE Append(lines, IF scm = "git" THEN Slashes(file) ELSE file)

\* Hg.unignore (370-387) and Git.unignore (511-525): list.remove drops the
\* first line equal to file
scm_unignore(lines, file) ==
  IF ~HasLine(lines, file) THEN lines
  ELSE LET k == CHOOSE j \in 1..Len(lines) :
                  lines[j] = file /\ \A m \in 1..(j - 1) : lines[m] # file
       IN  SubSeq(lines, 1, k - 1) \o SubSeq(lines, k + 1, Len(lines))

\* the test of Repo.write (mbed.py 704-707) between the stored reference and
\* the live repository
SameReference(stored, live) ==
  /\ formaturl(stored.url, "https") = formaturl(live.url, "https")
  /\ \/ stored.hash = live.hash
     \/ /\ Truthy(stored.hash) /\ Truthy(live.hash)
        /\ stored.hash = Take(live.hash, Len(stored.hash))

\* Repo.write (mbed.py 700-715) for the library p whose live state is live:
\* what becomes of the reference file.  With fullurl None the file has been
\* opened with 'wb' when the concatenation raises TypeError
write_of(p, stored, live, full) ==
  IF libfile[p] # Absent /\ ~stored.ok THEN [out |-> "error", text |-> libfile[p]]
  ELSE IF libfile[p] # Absent /\ SameReference(stored, live)
  THEN [out |-> "unchanged", text |-> libfile[p]]
  ELSE IF full = NoneV THEN [out |-> "crash", text |-> <<>>]
  ELSE [out |-> "written", text |-> full]

write(p, live) == write_of(p, fromurl(libfile[p]), live, fullurl(live.url, live.hash))

\* the repository directories the second loop of sync visits (mbed.py
\* 1232-1245), in order: the repositories of a directory, then the walk
\* goes on in its plain sub-directories
RECURSIVE WalkRepos(_)
WalkRepos(ds) ==
  IF ds = <<>> THEN <<>>
  ELSE LET IsRepoDir(c) == isrepo(c)
           IsPlainDir(c) == IsDir(c) /\ ~isrepo(c)
       IN  SelectSeq(Children(Head(ds)), IsRepoDir)
             \o WalkRepos(SelectSeq(Children(Head(ds)), IsPlainDir) \o Tail(ds))

(***************************************************************************)
(* The call stack                                                          *)
(***************************************************************************)
\* a call of sync, update, import_ or publish made in directory cwd, with
\* the defaults of its parameters
Frame(op, cwd) ==
  [op |-> op, cwd |-> cwd, node |-> "none", pc |-> "enter", libs |-> <<>>,
   i |-> 1, walk |-> <<>>, rev |-> NoneV, url |-> NoneV,
   clean |-> FALSE, force |-> FALSE, ignore |-> FALSE,
   top |-> "True", all |-> "None", recursive |-> TRUE, keep_refs |-> FALSE,
   depth |-> "None", protocol |-> "default", by |-> "none", prevdir |-> "none"]

Top == stack[Len(stack)]

Running(op, pc) ==
  status = "running" /\ stack # <<>> /\ Top.op = op /\ Top.pc = pc

SetTop(f) == [stack EXCEPT ![Len(stack)] = f]

Event(ev, node, by) == [ev |-> ev, node |-> node, by |-> by]

\* error() ends the process (sys.exit); an uncaught exception ends it too
Exit(how) == stack' = <<>> /\ status' = how

\* a call returns; the command is over when the outermost call returns
Return ==
  /\ stack' = SubSeq(stack, 1, Len(stack) - 1)
  /\ status' = IF Len(stack) = 1 THEN "ok" ELSE status

\* the mutant: the previous directory is not restored
Restored_never(f, d) == d

\* cd (mbed.py 176-183), the finally clause: the call f ends while the
\* working directory is d; a call made inside "with cd(...)" restores the
\* directory that was current when it was entered
Restored(f, d) == IF f.prevdir # "none" THEN f.prevdir ELSE d

RECURSIVE Unwound(_, _)
\* every call on the stack ends, the innermost first: a return of the
\* outermost call, sys.exit() or an exception that nothing catches
Unwound(st, d) ==
  IF st = <<>> THEN d
  ELSE Unwound(SubSeq(st, 1, Len(st) - 1), Restored(st[Len(st)], d))

\* cd (mbed.py 176-183) over one step of a command: a call entered with
\* "with cd(path)" changes to path, and the ends of calls restore
Chdir ==
  wd' = IF stack' = <<>> THEN Unwound(stack, wd)
        ELSE IF Len(stack') + 1 = Len(stack) THEN Restored(stack[Len(stack)], wd)
        ELSE IF /\ stack'[Len(stack')].prevdir # "none"
                /\ \/ Len(stack') = Len(stack) + 1
                   \/ stack'[Len(stack')].op # stack[Len(stack)].op
        THEN stack'[Len(stack')].cwd
        ELSE wd

(***************************************************************************)
(* sync (mbed.py 1213-1256)                                                *)
(***************************************************************************)
\* the references Repo.fromrepo() reads in the repository n it found
LibsAt(n) == IF n = "none" THEN <<>> ELSE getlibs(n)

Entered(f, n, ls) == [f EXCEPT !.node = n, !.libs = ls, !.pc = "refs", !.i = 1]

Step(f) == SetTop([f EXCEPT !.i = f.i + 1])

SyncEnter_of(f, n, ls) ==
  IF n = "none" \/ ~LibsValid(ls)
  THEN Exit("failed") /\ UNCHANGED <<exclude, hgrc, events>>
  ELSE /\ exclude' = [exclude EXCEPT ![n] = scm_ignores(dirs[n], @)]
       /\ hgrc' = [hgrc EXCEPT ![n] = IF dirs[n] = "hg" THEN HgrcWithHook(@) ELSE @]
       /\ stack' = SetTop(Entered(f, n, ls))
       /\ events' = Append(events, Event("sync", n, n))
       /\ status' = status

\* lines 1217-1218: Repo.fromrepo() of the enclosing repository, which reads
\* its references, then scm.ignores
SyncEnter ==
  /\ Running("sync", "enter")
  /\ SyncEnter_of(Top, findrepo(Top.cwd), LibsAt(findrepo(Top.cwd)))
  /\ UNCHANGED <<dirs, libfile, remotes, heads, modified, committed, staged,
                 unpushed, detached, runs, snap, fs0, urlVars, gateVars, toolVars>>
  /\ Chdir

\* the mutant: keep_refs is not looked at
RemovesStale_always(keep_refs) == TRUE

\* line 1227: a reference without a directory is removed unless keep_refs
RemovesStale(keep_refs) == ~keep_refs

\* lines 1221-1230 for the library p of the repository n, w being what
\* lib.write() does
SyncRef_of(f, n, p, w) ==
  IF IsDir(p) /\ (~isrepo(p) \/ w.out = "error")
  THEN Exit("failed") /\ UNCHANGED <<libfile, staged, exclude, events>>
  ELSE IF IsDir(p) /\ w.out = "crash"
  THEN /\ Exit("crashed")
       /\ libfile' = [libfile EXCEPT ![p] = w.text]
       /\ UNCHANGED <<staged, exclude, events>>
  ELSE IF IsDir(p)
  THEN /\ libfile' = [libfile EXCEPT ![p] = w.text]
       /\ exclude' = [exclude EXCEPT ![n] = scm_ignore(dirs[n], @, relpath(n, p))]
       /\ events' = IF w.out = "written"
                    THEN Append(events, Event("write", p, n)) ELSE events
       /\ stack' = Step(f) /\ UNCHANGED <<staged, status>>
  ELSE IF RemovesStale(f.keep_refs)
  THEN /\ libfile' = [libfile EXCEPT ![p] = Absent]
       /\ staged' = [staged EXCEPT ![p] = IF Owner(p) = n THEN FALSE ELSE @]
       /\ exclude' = [exclude EXCEPT ![n] = scm_unignore(@, relpath(n, p))]
       /\ events' = Append(events, Event("unref", p, n))
       /\ stack' = Step(f) /\ UNCHANGED status
  ELSE stack' = Step(f) /\ UNCHANGED <<libfile, staged, exclude, status, events>>

\* lib.sync() then lib.write() on the Repo l read from a reference file
SyncedWrite(l) == write(l.node, RepoSync(l.node, l.is_local))

\* lines 1220-1230, one library per step: check_repo, sync and write the
\* reference of a library that is there, remove the reference of one that
\* is not
SyncRef ==
  /\ Running("sync", "refs")
  /\ IF Top.i > Len(Top.libs)
     THEN /\ stack' = SetTop([Top EXCEPT !.pc = "walk", !.walk = WalkRepos(<<Top.node>>),
                                         !.i = 1])
          /\ UNCHANGED <<libfile, staged, exclude, status, events>>
     ELSE SyncRef_of(Top, Top.node, Top.libs[Top.i].node, SyncedWrite(Top.libs[Top.i]))
  /\ UNCHANGED <<dirs, remotes, heads, modified, committed, unpushed, detached,
                 hgrc, runs, snap, fs0, urlVars, gateVars, toolVars>>
  /\ Chdir

\* line 1250 and the start of the recursion
SyncResync_of(f, ls) ==
  /\ IF LibsValid(ls)
     THEN stack' = SetTop([f EXCEPT !.pc = "recurse", !.libs = ls, !.i = 1]) /\ status' = status
     ELSE Exit("failed")
  /\ UNCHANGED <<libfile, staged, exclude, events>>

\* lines 1240-1248 for the repository directory d found in the repository n
SyncWalk_of(f, n, d, w) ==
  IF libfile[d] # Absent
  THEN stack' = Step(f) /\ UNCHANGED <<libfile, staged, exclude, status, events>>
  ELSE IF w.out = "crash"
  THEN /\ Exit("crashed")
       /\ libfile' = [libfile EXCEPT ![d] = w.text]
       /\ events' = Append(events, Event("discover", d, n))
       /\ UNCHANGED <<staged, exclude>>
  ELSE /\ libfile' = [libfile EXCEPT ![d] = w.text]
       /\ exclude' = [exclude EXCEPT ![n] = scm_ignore(dirs[n], @, relpath(n, d))]
       /\ staged' = [staged EXCEPT ![d] = TRUE]
       /\ events' = Append(events, Event("discover", d, n))
       /\ stack' = Step(f)
       /\ UNCHANGED status

\* lines 1232-1250, one repository directory per step: a repository without
\* a reference gets one, is ignored, and the reference is added to the
\* index; after the walk the references are read again (line 1250)
SyncWalk ==
  /\ Running("sync", "walk")
  /\ IF Top.i > Len(Top.walk)
     THEN SyncResync_of(Top, getlibs(Top.node))
     ELSE SyncWalk_of(Top, Top.node, Top.walk[Top.i],
                      write(Top.walk[Top.i], fromrepo(Top.walk[Top.i])))
  /\ UNCHANGED <<dirs, remotes, heads, modified, committed, unpushed, detached,
                 hgrc, runs, snap, fs0, urlVars, gateVars, toolVars>>
  /\ Chdir

\* lines 1252-1256, one library per step: check_repo, then sync in the
\* library with keep_refs handed down and recursive left at its default
SyncRecurse ==
  /\ Running("sync", "recurse")
  /\ IF ~Top.recursive \/ Top.i > Len(Top.libs)
     THEN Return
     ELSE IF ~isrepo(Top.libs[Top.i].node)
     THEN Exit("failed")
     ELSE /\ stack' = Append(Step(Top),
                             [Frame("sync", Top.libs[Top.i].node)
                                EXCEPT !.keep_refs = Top.keep_refs, !.top = "False",
                                       !.prevdir = wd])
          /\ status' = status
  /\ UNCHANGED <<fsVars, events, runs, snap, fs0, urlVars, gateVars, toolVars>>
  /\ Chdir

(***************************************************************************)
(* publish (mbed.py 1097-1126)                                             *)
(***************************************************************************)
\* the reference file of p differs from HEAD of its owner as "git diff
\* --name-only HEAD" and "hg status -q" see it: a tracked file changed or
\* deleted, or a new file added to the index
RefChanged(p) ==
  \/ committed[p] # Absent /\ libfile[p] # committed[p]
  \/ committed[p] = Absent /\ libfile[p] # Absent /\ staged[p]

\* Git.dirty (463-464) and Hg.dirty (269-270)
dirty(n) == modified[n] \/ \E p \in Libs : Owner(p) = n /\ RefChanged(p)

\* the mutant: every repository is taken to have outgoing commits
outgoing_always(n) == TRUE

\* Git.outgoing (469-475) and Hg.outgoing (276-283) in a repository that has
\* a remote
outgoing(n) == unpushed[n]

\* the revision a commit makes
NewHash(h) == IF h = H0 THEN H1 ELSE H0

\* what Git.commit (434-435, commit -a) and Hg.commit (250-251) record of
\* the reference file of p
InCommit(n, p) == Owner(p) = n /\ (committed[p] # Absent \/ staged[p])

PublishEnter_of(f, n, ls) ==
  IF n = "none" \/ ~LibsValid(ls) \/ fromrepo(n).is_local
  THEN Exit("failed")
  ELSE stack' = SetTop(Entered(f, n, ls)) /\ status' = status

\* lines 1101-1105: Repo.fromrepo(), and a local repository cannot be
\* published
PublishEnter ==
  /\ Running("publish", "enter")
  /\ PublishEnter_of(Top, findrepo(Top.cwd), LibsAt(findrepo(Top.cwd)))
  /\ UNCHANGED <<fsVars, events, runs, snap, fs0, urlVars, gateVars, toolVars>>
  /\ Chdir

\* line 1111, publish(False, all): the parameters are (all, top)
PublishChild(f, p) ==
  [Frame("publish", p) EXCEPT !.all = "False", !.top = f.all, !.by = f.node,
                              !.prevdir = wd]

\* lines 1107-1113, one library per step: check_repo, then publish in the
\* library; after the last one, sync(recursive=False)
PublishLibs ==
  /\ Running("publish", "refs")
  /\ IF Top.i > Len(Top.libs)
     THEN /\ stack' = Append(SetTop([Top EXCEPT !.pc = "commit"]),
                             [Frame("sync", Top.cwd) EXCEPT !.recursive = FALSE])
          /\ UNCHANGED <<status, events>>
     ELSE IF ~isrepo(Top.libs[Top.i].node)
     THEN Exit("failed") /\ UNCHANGED events
     ELSE /\ stack' = Append(Step(Top), PublishChild(Top, Top.libs[Top.i].node))
          /\ events' = Append(events, Event("publish", Top.libs[Top.i].node, Top.node))
          /\ UNCHANGED status
  /\ UNCHANGED <<fsVars, runs, snap, fs0, urlVars, gateVars, toolVars>>
  /\ Chdir

PublishCommit_of(f, n) ==
  IF dirty(n)
  THEN /\ heads' = [heads EXCEPT ![n] = NewHash(@)]
       /\ committed' = [p \in Libs |-> IF InCommit(n, p) THEN libfile[p] ELSE committed[p]]
       /\ staged' = [p \in Libs |-> IF InCommit(n, p) THEN libfile[p] # Absent ELSE staged[p]]
       /\ modified' = [modified EXCEPT ![n] = FALSE]
       /\ unpushed' = [unpushed EXCEPT ![n] = TRUE]
       /\ events' = Append(events, Event("commit", n, n))
  ELSE UNCHANGED <<heads, committed, staged, modified, unpushed, events>>

\* lines 1115-1118: commit when the working tree is dirty
PublishCommit ==
  /\ Running("publish", "commit")
  /\ PublishCommit_of(Top, Top.node)
  /\ stack' = SetTop([Top EXCEPT !.pc = "push"])
  /\ UNCHANGED <<dirs, libfile, remotes, detached, exclude, hgrc, status,
                 runs, snap, fs0, urlVars, gateVars, toolVars>>
  /\ Chdir

\* lines 1120-1126: push when there are outgoing commits; "hg outgoing" in a
\* repository without a remote exits with 255, which is raised again
Pushed(all, n) == Event(IF all = "True" THEN "push_all" ELSE "push_branch", n, n)

\* how "git push" / "hg push" ends (popen, 133-147, raises ProcessException
\* with the exit code): done, refused by the remote with exit code 1 (a
\* rejected non-fast-forward push), or ended by another failure
PushExits(n) ==
  IF remotes[n] # <<>> /\ outgoing(n) THEN {"done", "rejected", "fatal"} ELSE {"done"}

PublishPush_of(f, n, exit) ==
  IF remotes[n] = <<>> \/ exit = "fatal"
  THEN /\ Exit("crashed")
       /\ events' = IF exit = "fatal" THEN Append(events, Event("push_fatal", n, n))
                    ELSE events
       /\ UNCHANGED unpushed
  ELSE /\ Return
       /\ unpushed' = [unpushed EXCEPT ![n] = IF outgoing(n) /\ exit = "done" THEN FALSE ELSE @]
       /\ events' = events \o (IF outgoing(n) THEN <<Event("push", n, n), Pushed(f.all, n)>>
                                       ELSE <<>>)
                           \o (IF exit = "rejected" THEN <<Event("push_rejected", n, n)>>
                                       ELSE <<>>)
                           \o <<Event("published", n, f.by)>>

\* lines 1120-1126: the ProcessException of outgoing() or push() is raised
\* again unless its exit code is 1
PublishPush ==
  /\ Running("publish", "push")
  /\ \E exit \in PushExits(Top.node) : PublishPush_of(Top, Top.node, exit)
  /\ UNCHANGED <<dirs, libfile, remotes, heads, modified, committed, staged,
                 detached, exclude, hgrc, runs, snap, fs0, urlVars, gateVars, toolVars>>
  /\ Chdir

\* The remote repositories: the URL of the repository called name, and the
\* name of the repository each directory of the tree is a clone of
Https(name) == <<"https">> \o SchemeSep \o <<"h", "/", name>>

RepoName == [R |-> "r", A |-> "a", B |-> "p", C |-> "q"]

(***************************************************************************)
(* update (mbed.py 1138-1207): the checkout                                *)
(***************************************************************************)
\* lines 1139-1140: a clean update of the program starts with sync()
UpdateEnter ==
  /\ Running("update", "enter")
  /\ stack' = IF Top.top = "True" /\ Top.clean
              THEN Append(SetTop([Top EXCEPT !.pc = "repo"]), Frame("sync", Top.cwd))
              ELSE SetTop([Top EXCEPT !.pc = "repo"])
  /\ UNCHANGED <<fsVars, status, events, runs, snap, fs0, urlVars, gateVars, toolVars>>
  /\ Chdir

\* the mutant: every backend reports the detached state
isdetached_anyscm(n) == detached[n]

\* Git.isdetached (477-479) and Hg.isdetached (285-286)
isdetached(n) == dirs[n] = "git" /\ detached[n]

\* the full revision an abbreviated one names
Expand(h) == IF h = Take(H0, 1) THEN H0 ELSE IF h = Take(H1, 1) THEN H1 ELSE h

\* Git.update checks a revision out when it is given one, and pulls when it
\* is not and the repository has a remote; Hg.update always runs "hg update"
Fetches(n, f, repo) == dirs[n] = "hg" \/ Truthy(f.rev) \/ ~repo.is_local

\* What the revision that is checked out changes in the references of the
\* repository: nothing, or the reference of one library is dropped, names
\* another URL, or is new
Keep == [kind |-> "keep", lib |-> "none"]

Unchanged(p, clean) == committed[p] # Absent /\ (clean \/ libfile[p] = committed[p])

Deltas(f, n, repo) ==
  IF f.top # "True" \/ ~Fetches(n, f, repo) THEN {Keep}
  ELSE {Keep}
       \cup {[kind |-> "drop", lib |-> p] :
               p \in {q \in {"A", "B"} : Owner(q) = n /\ Unchanged(q, f.clean)}}
       \cup {[kind |-> "retarget", lib |-> p] :
               p \in {q \in {"A"} : Owner(q) = n /\ Unchanged(q, f.clean)}}
       \cup {[kind |-> "add", lib |-> p] :
               p \in {q \in {"B"} : Owner(q) = n /\ committed[q] = Absent
                                                /\ libfile[q] = Absent}}

Target(delta) ==
  IF delta.kind = "drop" THEN Absent
  ELSE IF delta.kind = "retarget" THEN fullurl(Https("r"), H0)
  ELSE fullurl(Https(RepoName[delta.lib]), H0)

\* Git.update (443-458) and Hg.update (259-264) in the repository n: with
\* clean git resets the index, restores the tracked files and removes the
\* untracked ones, hg restores the tracked files; then the revision is
\* checked out.  The reference files, HEAD and the index afterwards
Updated(n, clean, delta) ==
  [lib |-> [p \in Libs |->
              IF Owner(p) # n THEN libfile[p]
              ELSE IF delta.lib = p THEN Target(delta)
              ELSE IF clean /\ (dirs[n] = "git" \/ committed[p] # Absent) THEN committed[p]
              ELSE libfile[p]],
   com |-> [p \in Libs |->
              IF Owner(p) = n /\ delta.lib = p THEN Target(delta) ELSE committed[p]],
   st  |-> [p \in Libs |->
              IF Owner(p) # n THEN staged[p]
              ELSE IF delta.lib = p THEN Target(delta) # Absent
              ELSE IF clean THEN committed[p] # Absent
              ELSE staged[p]]]

\* Git.untracked (466-467) and Hg.untracked (272-274) as Repo.rm_untracked
\* (717-722) reads them, for a tree whose only untracked files are
\* references: git lists the files, hg lists them with "? " in front and
\* the prefix is taken off the first line only
Untracked(n, t) ==
  LET IsUntracked(p) ==
        Owner(p) = n /\ t.lib[p] # Absent /\ t.com[p] = Absent /\ ~t.st[p]
  IN  SelectSeq(<<"A", "C", "B">>, IsUntracked)

Named(n, us) ==
  IF dirs[n] = "git" THEN {us[k] : k \in 1..Len(us)}
  ELSE IF us = <<>> THEN {} ELSE {us[1]}

\* Repo.rm_untracked (717-722)
rm_untracked(t, gone) ==
  [t EXCEPT !.lib = [p \in Libs |-> IF p \in gone THEN Absent ELSE t.lib[p]]]

\* lines 1159-1160 on the files
Checkout(n, t, f, delta, fetches) ==
  /\ libfile' = t.lib
  /\ committed' = t.com
  /\ staged' = t.st
  /\ heads' = [heads EXCEPT ![n] = IF Truthy(f.rev) THEN Expand(f.rev)
                                   ELSE IF delta = Keep THEN @ ELSE NewHash(@)]
  /\ detached' = [detached EXCEPT ![n] = IF dirs[n] = "git" /\ Truthy(f.rev) THEN TRUE ELSE @]
  /\ modified' = [modified EXCEPT ![n] = IF f.clean THEN FALSE ELSE @]
  /\ events' = events \o (IF fetches THEN <<Event("checkout", n, n)>> ELSE <<>>)
                      \o (IF f.clean THEN <<Event("discard", n, n)>> ELSE <<>>)

NoCheckout == UNCHANGED <<libfile, committed, staged, heads, detached, modified, events>>

\* whether the repository n has the revision it is asked to check out: the
\* revision a reference pins is one of the library's repository, and n may
\* or may not have it when n is not the repository of the directory the
\* call was made in; "git checkout" and "hg update" fail without it
RevisionFound(f, n) == IF Truthy(f.rev) /\ n # f.cwd THEN {TRUE, FALSE} ELSE {TRUE}

\* lines 1142-1160: Repo.fromrepo(), the detached-HEAD test, and
\* scm.update with rm_untracked unless the repository is local and empty;
\* "hg pull" fails in a repository without a remote
UpdateCheckout_of(f, n, ls, repo) ==
  IF n = "none" \/ ~LibsValid(ls)
  THEN Exit("failed") /\ NoCheckout
  ELSE IF f.top = "True" /\ ~Truthy(f.rev) /\ isdetached(n)
  THEN /\ Exit("failed")
       /\ events' = Append(events, Event("detached", n, n))
       /\ UNCHANGED <<libfile, committed, staged, heads, detached, modified>>
  ELSE IF repo.is_local /\ ~Truthy(repo.hash)
  THEN /\ stack' = SetTop([Entered(f, n, ls) EXCEPT !.pc = "obsolete"]) /\ status' = status
       /\ NoCheckout
  ELSE IF dirs[n] = "hg" /\ remotes[n] = <<>>
  THEN Exit("crashed") /\ NoCheckout
  ELSE \E found \in RevisionFound(f, n) :
         IF ~found
         THEN Exit("crashed") /\ NoCheckout
         ELSE /\ stack' = SetTop([Entered(f, n, ls) EXCEPT !.pc = "obsolete"])
              /\ status' = status
              /\ \E delta \in Deltas(f, n, repo) :
                   Checkout(n, rm_untracked(Updated(n, f.clean, delta),
                                            Named(n, Untracked(n, Updated(n, f.clean, delta)))),
                            f, delta, Fetches(n, f, repo))

UpdateCheckout ==
  /\ Running("update", "repo")
  /\ UpdateCheckout_of(Top, findrepo(Top.cwd), LibsAt(findrepo(Top.cwd)),
                       fromrepo(findrepo(Top.cwd)))
  /\ UNCHANGED <<dirs, remotes, unpushed, exclude, hgrc, runs, snap, fs0,
                 urlVars, gateVars, toolVars>>
  /\ Chdir

(***************************************************************************)
(* update: the libraries without a reference, the libraries whose URL      *)
(* changed, and the libraries to import or update                          *)
(***************************************************************************)
RECURSIVE IsUnder(_, _)
\* the directory d is p or lies inside p
IsUnder(d, p) == IF d = p THEN TRUE ELSE IF d = Root THEN FALSE ELSE IsUnder(Parent[d], p)

\* rmtree_readonly (mbed.py 168-173) of the library p, and scm.unignore of
\* it in the repository n (lines 1171-1172 and 1192-1193): the directory
\* goes with everything in it
Rmtree(p, n) ==
  /\ dirs' = [d \in Nodes |-> IF IsUnder(d, p) THEN "none" ELSE dirs[d]]
  /\ libfile' = [c \in Libs |-> IF IsUnder(Parent[c], p) THEN Absent ELSE libfile[c]]
  /\ committed' = [c \in Libs |-> IF IsUnder(Parent[c], p) THEN Absent ELSE committed[c]]
  /\ staged' = [c \in Libs |-> IF IsUnder(Parent[c], p) THEN FALSE ELSE staged[c]]
  /\ remotes' = [d \in Nodes |-> IF IsUnder(d, p) THEN <<>> ELSE remotes[d]]
  /\ heads' = [d \in Nodes |-> IF IsUnder(d, p) THEN <<>> ELSE heads[d]]
  /\ modified' = [d \in Nodes |-> IF IsUnder(d, p) THEN FALSE ELSE modified[d]]
  /\ unpushed' = [d \in Nodes |-> IF IsUnder(d, p) THEN FALSE ELSE unpushed[d]]
  /\ detached' = [d \in Nodes |-> IF IsUnder(d, p) THEN FALSE ELSE detached[d]]
  /\ hgrc' = [d \in Nodes |-> IF IsUnder(d, p) THEN <<>> ELSE hgrc[d]]
  /\ exclude' = [d \in Nodes |->
                   IF IsUnder(d, p) THEN <<>>
                   ELSE IF d = n THEN scm_unignore(exclude[n], relpath(n, p))
                   ELSE exclude[d]]

\* the mutant: every library directory of the earlier revision is a
\* candidate, whether or not its reference is still there
IsObsolete_anydir(p) == IsDir(p)

\* line 1164: the reference file is gone and the directory is there
IsObsolete(p) == libfile[p] = Absent /\ IsDir(p)

\* what Repo.can_update reads of the library p: the Repo that fromrepo made
\* of it (r), scm.dirty() and scm.outgoing() in its directory
GateRepo(r, p) ==
  [is_local |-> r.is_local, url |-> r.url, dirty |-> dirty(p), outgoing |-> outgoing(p)]

\* the mutant: the library is removed whatever the gate answers
Allowed_always(g) == TRUE

\* lines 1169 and 1190: "if gc"
Allowed(g) == g.ok

\* lines 1165-1177 and 1187-1198 for the library p of the repository n, g
\* being the answer of can_update: remove, or warn under --ignore, or stop
Gated(f, n, p, g, ev) ==
  IF Allowed(g)
  THEN /\ Rmtree(p, n)
       /\ events' = Append(events, Event(ev, p, n))
       /\ stack' = Step(f) /\ status' = status
  ELSE IF f.ignore
  THEN /\ events' = Append(events, Event("warn", p, n))
       /\ stack' = Step(f) /\ status' = status
       /\ UNCHANGED fsVars
  ELSE /\ events' = Append(events, Event("error", p, n))
       /\ Exit("failed")
       /\ UNCHANGED fsVars

\* lines 1163-1177 for one library of the references read before the
\* checkout; Repo.fromrepo(lib.path) stops the command in a directory that
\* is not a repository
UpdateObsolete_of(f, n, p, r) ==
  IF ~IsObsolete(p)
  THEN stack' = Step(f) /\ UNCHANGED <<fsVars, status, events>>
  ELSE IF ~isrepo(p) \/ ~LibsValid(getlibs(p))
  THEN Exit("failed") /\ UNCHANGED <<fsVars, events>>
  ELSE Gated(f, n, p, can_update(GateRepo(r, p), f.clean, f.force), "remove_obsolete")

\* the mutant: the passes go on with the references read before the checkout
UpdateResync_stale(f, ls, pc) ==
  stack' = SetTop([f EXCEPT !.i = 1, !.pc = pc]) /\ status' = status

\* line 1180: repo.sync() reads the references again
UpdateResync_of(f, ls, pc) ==
  IF ~LibsValid(ls) THEN Exit("failed")
  ELSE stack' = SetTop([f EXCEPT !.libs = ls, !.i = 1, !.pc = pc]) /\ status' = status

UpdateObsolete ==
  /\ Running("update", "obsolete")
  /\ IF Top.i > Len(Top.libs)
     THEN /\ UpdateResync_of(Top, getlibs(Top.node), "drift")
          /\ UNCHANGED <<fsVars, events>>
     ELSE UpdateObsolete_of(Top, Top.node, Top.libs[Top.i].node,
                            fromrepo(Top.libs[Top.i].node))
  /\ UNCHANGED <<runs, snap, fs0, urlVars, gateVars, toolVars>>
  /\ Chdir

\* lines 1183-1198 for one library: a repository whose URL is not the one
\* its reference names
UpdateDrift_of(f, n, l, r) ==
  IF ~(IsDir(l.node) /\ isrepo(l.node))
  THEN stack' = Step(f) /\ UNCHANGED <<fsVars, status, events>>
  ELSE IF ~LibsValid(getlibs(l.node))
  THEN Exit("failed") /\ UNCHANGED <<fsVars, events>>
  ELSE IF l.url = r.url
  THEN stack' = Step(f) /\ UNCHANGED <<fsVars, status, events>>
  ELSE Gated(f, n, l.node, can_update(GateRepo(r, l.node), f.clean, f.force),
             "remove_drift")

UpdateDrift ==
  /\ Running("update", "drift")
  /\ IF Top.i > Len(Top.libs)
     THEN /\ stack' = SetTop([Top EXCEPT !.i = 1, !.pc = "libs"])
          /\ UNCHANGED <<fsVars, status, events>>
     ELSE UpdateDrift_of(Top, Top.node, Top.libs[Top.i], fromrepo(Top.libs[Top.i].node))
  /\ UNCHANGED <<runs, snap, fs0, urlVars, gateVars, toolVars>>
  /\ Chdir

\* the call of import_ for the library l (lines 1203 and 1051)
ImportCall(f, l) ==
  [Frame("import", l.node) EXCEPT !.url = fullurl(l.url, l.hash), !.depth = f.depth,
                                  !.protocol = f.protocol, !.top = "False",
                                  !.by = f.node]

\* line 1207: update(lib.hash, clean, force, ignore, top=False) in the
\* directory of the library; depth and protocol are left at their defaults
UpdateCall(f, l) ==
  [Frame("update", l.node) EXCEPT !.rev = l.hash, !.clean = f.clean, !.force = f.force,
                                  !.ignore = f.ignore, !.top = "False", !.by = f.node,
                                  !.prevdir = wd]

\* the calls the interpreter lets a command nest (sys.getrecursionlimit(),
\* counted in calls of the model); one more ends the command with a
\* RuntimeError
RecursionLimit == 6

\* lines 1201-1207, one library per step
UpdateLibs ==
  /\ Running("update", "libs")
  /\ IF Top.i > Len(Top.libs)
     THEN Return
     ELSE IF ~IsDir(Top.libs[Top.i].node)
     THEN /\ stack' = Append(SetTop([Top EXCEPT !.pc = "ignore"]),
                             ImportCall(Top, Top.libs[Top.i]))
          /\ status' = status
     ELSE IF Len(stack) >= RecursionLimit
     THEN Exit("crashed")
     ELSE /\ stack' = Append(Step(Top), UpdateCall(Top, Top.libs[Top.i]))
          /\ status' = status
  /\ UNCHANGED <<fsVars, events, runs, snap, fs0, urlVars, gateVars, toolVars>>
  /\ Chdir

\* lines 1204 and 1052: scm.ignore of the library that was imported
ImportIgnore ==
  /\ status = "running" /\ stack # <<>>
  /\ Top.op \in {"update", "deploy"} /\ Top.pc = "ignore"
  /\ exclude' = [exclude EXCEPT ![Top.node] =
                   scm_ignore(dirs[Top.node], @, relpath(Top.node, Top.libs[Top.i].node))]
  /\ stack' = SetTop([Top EXCEPT !.pc = "libs", !.i = Top.i + 1])
  /\ UNCHANGED <<dirs, libfile, remotes, heads, modified, committed, staged, unpushed,
                 detached, hgrc, status, events, runs, snap, fs0, urlVars, gateVars, toolVars>>
  /\ Chdir

(***************************************************************************)
(* import_ (mbed.py 999-1033) of a library and deploy (1041-1055)          *)
(***************************************************************************)
\* what the clone attempts of lines 1016-1025 can come to: the remote
\* repository is cloned with git, or no clone succeeds, or the clone
\* succeeds and the revision of the reference is not in it; a reference
\* that is a local path names the directory that is missing
CloneResults(repo) ==
  IF repo.is_local THEN {"fail"}
  ELSE {"git", "fail"} \cup (IF Truthy(repo.hash) THEN {"norev"} ELSE {})

\* the references in the clone of the repository p: the clone of A may
\* hold a reference to C
ClonedRefs(p) == IF p = "A" THEN {Absent, fullurl(Https(RepoName["C"]), H0)} ELSE {Absent}

\* Git.clone (407-414): clone formaturl(url, protocol) into the directory of
\* p and check the revision out; when the checkout fails, error() ends the
\* command and the clone stays at the revision it was made at
Clone(p, repo, protocol, ref) ==
  /\ dirs' = [dirs EXCEPT ![p] = "git"]
  /\ remotes' = [remotes EXCEPT ![p] = formaturl(repo.url, protocol)]
  /\ heads' = [heads EXCEPT ![p] = IF Truthy(repo.hash) THEN Expand(repo.hash) ELSE H0]
  /\ detached' = [detached EXCEPT ![p] = Truthy(repo.hash)]
  /\ libfile' = [c \in Libs |-> IF Parent[c] = p THEN ref ELSE libfile[c]]
  /\ committed' = [c \in Libs |-> IF Parent[c] = p THEN ref ELSE committed[c]]
  /\ staged' = [c \in Libs |-> IF Parent[c] = p THEN ref # Absent ELSE staged[c]]

\* lines 1002-1033 with top=False: Repo.fromurl, the clone, and deploy in
\* the directory of the clone
ImportClone_of(f, p, repo) ==
  IF ~repo.ok
  THEN /\ Exit("failed")
       /\ UNCHANGED <<dirs, remotes, heads, detached, libfile, committed, staged, events>>
  ELSE \E res \in CloneResults(repo) :
         IF res = "fail"
         THEN /\ Exit("failed")
              /\ UNCHANGED <<dirs, remotes, heads, detached, libfile, committed, staged,
                             events>>
         ELSE IF res = "norev"
         THEN /\ Clone(p, [repo EXCEPT !.hash = NoneV], f.protocol, Absent)
              /\ events' = Append(events, Event("norev", p, f.by))
              /\ Exit("failed")
         ELSE /\ \E ref \in ClonedRefs(p) : Clone(p, repo, f.protocol, ref)
              /\ events' = Append(events, Event("import", p, f.by))
              /\ stack' = SetTop([Frame("deploy", p) EXCEPT !.depth = f.depth,
                                                            !.protocol = f.protocol,
                                                            !.top = "False", !.by = f.by,
                                                            !.prevdir = wd])
              /\ status' = status

ImportClone ==
  /\ Running("import", "enter")
  /\ ImportClone_of(Top, Top.cwd, fromurl(Top.url))
  /\ UNCHANGED <<modified, unpushed, exclude, hgrc, runs, snap, fs0, urlVars, gateVars, toolVars>>
  /\ Chdir

\* lines 1042-1043: Repo.fromrepo() and scm.ignores
DeployEnter_of(f, n, ls) ==
  IF n = "none" \/ ~LibsValid(ls)
  THEN Exit("failed") /\ UNCHANGED <<exclude, hgrc>>
  ELSE /\ exclude' = [exclude EXCEPT ![n] = scm_ignores(dirs[n], @)]
       /\ hgrc' = [hgrc EXCEPT ![n] = IF dirs[n] = "hg" THEN HgrcWithHook(@) ELSE @]
       /\ stack' = SetTop([Entered(f, n, ls) EXCEPT !.pc = "libs"])
       /\ status' = status

DeployEnter ==
  /\ Running("deploy", "enter")
  /\ DeployEnter_of(Top, findrepo(Top.cwd), LibsAt(findrepo(Top.cwd)))
  /\ UNCHANGED <<dirs, libfile, remotes, heads, modified, committed, staged,
                 unpushed, detached, events, runs, snap, fs0, urlVars, gateVars, toolVars>>
  /\ Chdir

\* the mutant: the update in the library is not pinned
DeployUpdateCall_unpinned(f, l) ==
  [Frame("update", l.node) EXCEPT !.depth = f.depth, !.protocol = f.protocol,
                                  !.top = "False", !.by = f.node, !.prevdir = wd]

\* line 1049: update(lib.hash, depth=depth, protocol=protocol, top=False)
DeployUpdateCall(f, l) ==
  [Frame("update", l.node) EXCEPT !.rev = l.hash, !.depth = f.depth,
                                  !.protocol = f.protocol, !.top = "False",
                                  !.by = f.node, !.prevdir = wd]

\* lines 1045-1055, one library per step; Program.post_clone does nothing in
\* a tree without mbed-os
DeployLibs ==
  /\ Running("deploy", "libs")
  /\ IF Top.i > Len(Top.libs)
     THEN Return
     ELSE IF ~IsDir(Top.libs[Top.i].node)
     THEN /\ stack' = Append(SetTop([Top EXCEPT !.pc = "ignore"]),
                             ImportCall(Top, Top.libs[Top.i]))
          /\ status' = status
     ELSE IF ~isrepo(Top.libs[Top.i].node)
     THEN Exit("failed")
     ELSE /\ stack' = Append(Step(Top), DeployUpdateCall(Top, Top.libs[Top.i]))
          /\ status' = status
  /\ UNCHANGED <<fsVars, events, runs, snap, fs0, urlVars, gateVars, toolVars>>
  /\ Chdir

(***************************************************************************)
(* ls (mbed.py 1264-1277) and status (1284-1293)                           *)
(***************************************************************************)
\* Repo.check_repo (742-761): the directory of the library is there and is
\* a repository
check_repo(p) == IsDir(p) /\ isrepo(p)

\* the mutant: the failure is a warning whether or not show_warning is set
Reported_warning(show_warning) == "warn"

\* check_repo, lines 755-759: warning() when show_warning, error() otherwise
Reported(show_warning) == IF show_warning THEN "warn" ELSE "error"

\* the recursive call of ls or status in the library p
ReadChild(f, p) ==
  [Frame(f.op, p) EXCEPT !.ignore = f.ignore, !.top = "False", !.by = f.node,
                         !.prevdir = wd]

\* line 1268, sorted(repo.libs, key=lambda l: l.path)
SortedByPath(ls) ==
  LET Listed(p) == \E k \in 1..Len(ls) : ls[k].node = p
  IN  LibsOf(SelectSeq(<<"A", "C", "B">>, Listed))

\* lines 1265-1266 and 1285-1288: Repo.fromrepo(), then the line of ls, or
\* the status of a repository that is dirty
ReadEnter_of(f, n, ls) ==
  IF n = "none" \/ ~LibsValid(ls)
  THEN Exit("failed") /\ UNCHANGED events
  ELSE /\ stack' = SetTop(Entered(f, n, IF f.op = "ls" THEN SortedByPath(ls) ELSE ls))
       /\ events' = IF f.op = "ls" \/ dirty(n)
                    THEN Append(events, Event(f.op, n, f.by)) ELSE events
       /\ status' = status

\* lines 1275-1277 and 1291-1293 for the library p of the repository n
ReadLib_of(f, n, p, how) ==
  IF check_repo(p)
  THEN /\ stack' = Append(Step(f), ReadChild(f, p))
       /\ UNCHANGED <<status, events>>
  ELSE /\ events' = Append(events, Event(how, p, n))
       /\ IF how = "warn" THEN stack' = Step(f) /\ status' = status
          ELSE Exit("failed")

ListEnter ==
  /\ Running("ls", "enter")
  /\ ReadEnter_of(Top, findrepo(Top.cwd), LibsAt(findrepo(Top.cwd)))
  /\ UNCHANGED <<fsVars, runs, snap, fs0, urlVars, gateVars, toolVars>>
  /\ Chdir

\* lines 1268-1277, one library per step
ListLibs ==
  /\ Running("ls", "refs")
  /\ IF Top.i > Len(Top.libs)
     THEN Return /\ UNCHANGED events
     ELSE ReadLib_of(Top, Top.node, Top.libs[Top.i].node, Reported(Top.ignore))
  /\ UNCHANGED <<fsVars, runs, snap, fs0, urlVars, gateVars, toolVars>>
  /\ Chdir

StatusEnter ==
  /\ Running("status", "enter")
  /\ ReadEnter_of(Top, findrepo(Top.cwd), LibsAt(findrepo(Top.cwd)))
  /\ UNCHANGED <<fsVars, runs, snap, fs0, urlVars, gateVars, toolVars>>
  /\ Chdir

\* lines 1290-1293, one library per step
StatusLibs ==
  /\ Running("status", "refs")
  /\ IF Top.i > Len(Top.libs)
     THEN Return /\ UNCHANGED events
     ELSE ReadLib_of(Top, Top.node, Top.libs[Top.i].node, Reported(Top.ignore))
  /\ UNCHANGED <<fsVars, runs, snap, fs0, urlVars, gateVars, toolVars>>
  /\ Chdir

(***************************************************************************)
(* Program.get_program (mbed.py 768-801)                                   *)
(***************************************************************************)
\* lines 773-775: the Program before the walk
Assumed(cwd) == [path |-> cwd, is_cwd |-> TRUE, is_repo |-> "unset"]

\* lines 785-788: a repository on the way up is taken, and the walk goes on
Taken(path, prog) ==
  IF isrepo(path) THEN [path |-> path, is_cwd |-> FALSE, is_repo |-> "True"] ELSE prog

RECURSIVE Upward(_, _)
\* lines 777-791, one directory per turn of the loop: the directory with
\* the config file ends the walk; the directories above the root of the
\* tree hold neither a config file nor a repository
Upward(path, prog) ==
  IF path \in marker
  THEN [path |-> path, is_cwd |-> FALSE,
        is_repo |-> IF isrepo(path) THEN "True" ELSE "False"]
  ELSE IF path = Root THEN Taken(path, prog)
  ELSE Upward(Parent[path], Taken(path, prog))

get_program(cwd) == Upward(cwd, Assumed(cwd))

\* Program.get_program() called in the working directory
GetProgram ==
  /\ tpc = "start"
  /\ program' = get_program(wd)
  /\ tpc' = "done"
  /\ UNCHANGED <<marker, cfg, cfg0, lastset, urlVars, gateVars, fsVars, runVars>>

(***************************************************************************)
(* Program.set_cfg and Program.get_cfg (mbed.py 804-835)                   *)
(***************************************************************************)
\* A line of the config file is a sequence of tokens: <<key, "=", value>>
\* reads as key=value; re.match(r'^([\w+-]+)\=(.*)?$', line) finds the key
\* in a line that starts with a word followed by "="
CfgKey(line) ==
  IF Len(line) >= 2 /\ line[1] \notin {"#", "="} /\ line[2] = "="
  THEN line[1] ELSE "none"

\* m.group(2)
CfgValue(line) == SubSeq(line, 3, Len(line))

\* list.remove(x): the first element equal to x goes
ListRemove(lines, x) ==
  LET k == CHOOSE j \in 1..Len(lines) :
             lines[j] = x /\ \A m \in 1..(j - 1) : lines[m] # x
  IN  SubSeq(lines, 1, k - 1) \o SubSeq(lines, k + 1, Len(lines))

RECURSIVE Scan(_, _, _)
\* lines 812-815, "for line in lines: ... lines.remove(line)": the loop
\* reads the element at its index i in the list as it is now, so after a
\* removal the element that moved into the place is not looked at
Scan(lines, i, var) ==
  IF i > Len(lines) THEN lines
  ELSE IF CfgKey(lines[i]) = var THEN Scan(ListRemove(lines, lines[i]), i + 1, var)
  ELSE Scan(lines, i + 1, var)

\* Program.set_cfg (804-820)
set_cfg(lines, var, val) == Append(Scan(lines, 1, var), <<var, "=">> \o val)

RECURSIVE get_cfg(_, _, _)
\* Program.get_cfg (823-835): the value of the first line of the key
get_cfg(lines, var, default_val) ==
  IF lines = <<>> THEN default_val
  ELSE IF CfgKey(Head(lines)) = var THEN CfgValue(Head(lines))
  ELSE get_cfg(Tail(lines), var, default_val)

\* the keys the commands target and toolchain set
CfgKeys == {"TARGET", "TOOLCHAIN"}

CfgValues == {<<"K64F">>, <<"GCC_ARM">>}

SetCfg ==
  /\ tpc = "config"
  /\ \E var \in CfgKeys, val \in CfgValues :
       /\ cfg' = set_cfg(cfg, var, val)
       /\ lastset' = [lastset EXCEPT ![var] = val]
  /\ UNCHANGED <<marker, tpc, program, cfg0, urlVars, gateVars, fsVars, runVars>>

(***************************************************************************)
(* Initial values of the parts a specification does not use                *)
(***************************************************************************)
NoRepo == [ok |-> FALSE, url |-> NoneV, hash |-> NoneV, is_local |-> FALSE]

UrlIdle ==
  /\ upc = "idle" /\ loc = <<>> /\ fmt = "default" /\ rev = NoneV
  /\ once = <<>> /\ twice = <<>> /\ rurl = NoneV /\ reftext = NoneV /\ back = NoRepo
  /\ owners = {}

GateIdle ==
  /\ gpc = "idle" /\ gclean = FALSE /\ gforce = FALSE
  /\ grepo = [is_local |-> FALSE, url |-> NoneV, dirty |-> FALSE, outgoing |-> FALSE]
  /\ gres = [ok |-> FALSE, err |-> "none"]

ToolIdle ==
  /\ marker = {} /\ tpc = "idle"
  /\ program = [path |-> Root, is_cwd |-> TRUE, is_repo |-> "unset"]
  /\ cfg = <<>> /\ cfg0 = <<>> /\ lastset = [k \in {} |-> NoneV]

TreeIdle ==
  /\ dirs = [d \in Nodes |-> "none"] /\ libfile = [p \in Libs |-> Absent]
  /\ remotes = [d \in Nodes |-> <<>>] /\ heads = [d \in Nodes |-> <<>>]
  /\ modified = [d \in Nodes |-> FALSE] /\ committed = [p \in Libs |-> Absent]
  /\ staged = [p \in Libs |-> FALSE] /\ unpushed = [d \in Nodes |-> FALSE]
  /\ detached = [d \in Nodes |-> FALSE] /\ exclude = [d \in Nodes |-> <<>>]
  /\ hgrc = [d \in Nodes |-> <<>>]
  /\ stack = <<>> /\ status = "idle" /\ events = <<>> /\ runs = 0 /\ wd = Root
  /\ snap = [libfile |-> libfile, exclude |-> exclude, hgrc |-> hgrc]
  /\ fs0 = [dirs |-> dirs, libfile |-> libfile, exclude |-> exclude,
            cmd |-> Frame("none", Root)]

(***************************************************************************)
(* Canonicalisation and the reference round trip                           *)
(***************************************************************************)
Revisions == {NoneV, <<"abcdef">>}

UrlInit ==
  /\ upc = "start"
  /\ loc \in Locators \cup LocalPaths
  /\ fmt \in Formats
  /\ rev \in Revisions
  /\ fmt = "default" \/ rev = NoneV
  /\ once = <<>> /\ twice = <<>> /\ rurl = NoneV /\ reftext = NoneV /\ back = NoRepo
  /\ owners = {}
  /\ GateIdle /\ TreeIdle /\ ToolIdle

\* formaturl(u, p)
Canonicalize ==
  /\ upc = "start"
  /\ once' = formaturl(loc, fmt)
  /\ upc' = "once"
  /\ UNCHANGED <<loc, fmt, rev, twice, rurl, reftext, back, owners, gateVars, toolVars, fsVars, runVars>>

\* formaturl(formaturl(u, p), p)
Recanonicalize ==
  /\ upc = "once"
  /\ twice' = formaturl(once, fmt)
  /\ upc' = "twice"
  /\ UNCHANGED <<loc, fmt, rev, once, rurl, reftext, back, owners, gateVars, toolVars, fsVars, runVars>>

\* Repo.sync of a repository whose remote is loc (geturl canonicalises it),
\* or that has no remote and lies at the relative path loc (mbed.py 655-665)
RepoFromLive ==
  /\ upc = "start" /\ fmt = "default"
  /\ rurl' = IF loc \in LocalPaths THEN loc ELSE formaturl(loc, "default")
  /\ upc' = "repo"
  /\ UNCHANGED <<loc, fmt, rev, once, twice, reftext, back, owners, gateVars, toolVars, fsVars, runVars>>

\* Repo.write: the file holds fullurl and a newline (mbed.py 714-715)
WriteReference ==
  /\ upc = "repo"
  /\ reftext' = fullurl(rurl, rev)
  /\ upc' = "written"
  /\ UNCHANGED <<loc, fmt, rev, once, twice, rurl, back, owners, gateVars, toolVars, fsVars, runVars>>

\* Repo.fromlib of the file just written
ReadReference ==
  /\ upc = "written"
  /\ back' = fromlib(reftext)
  /\ upc' = "read"
  /\ UNCHANGED <<loc, fmt, rev, once, twice, rurl, reftext, owners, gateVars, toolVars, fsVars, runVars>>

\* Git.isurl (397-402) and Hg.isurl (213-218) on what regex_url_ref matched
Git_isurl_of(m) == m.ok /\ MatchGitUrl(m.g1).ok /\ ~MatchMbedUrl(m.g1).ok

Hg_isurl_of(m) == m.ok /\ (MatchHgUrl(m.g1).ok \/ MatchMbedUrl(m.g1).ok)

isurl(scm, url) ==
  IF scm = "git" THEN Git_isurl_of(MatchUrlRef(url)) ELSE Hg_isurl_of(MatchUrlRef(url))

\* scm.isurl(url) for each backend, as import_ asks (line 1011)
DetectBackends ==
  /\ upc = "start" /\ fmt = "default" /\ rev = NoneV
  /\ owners' = {scm \in {"git", "hg"} : isurl(scm, loc)}
  /\ upc' = "detected"
  /\ UNCHANGED <<loc, fmt, rev, once, twice, rurl, reftext, back, gateVars, toolVars, fsVars, runVars>>

UrlNext ==
  \/ Canonicalize \/ Recanonicalize \/ RepoFromLive \/ WriteReference \/ ReadReference
  \/ DetectBackends

SpecUrl == UrlInit /\ [][UrlNext]_vars

(***************************************************************************)
(* The safety gate on its own                                              *)
(***************************************************************************)
GateInit ==
  /\ gpc = "start"
  /\ grepo \in [is_local : BOOLEAN, url : {NoneV, <<"liba">>, <<"https">> \o SchemeSep \o <<"h", "/", "a">>},
                 dirty : BOOLEAN, outgoing : BOOLEAN]
  /\ gclean \in BOOLEAN
  /\ gforce \in BOOLEAN
  /\ gres = [ok |-> FALSE, err |-> "none"]
  /\ UrlIdle /\ TreeIdle /\ ToolIdle

CanUpdate ==
  /\ gpc = "start"
  /\ gres' = can_update(grepo, gclean, gforce)
  /\ gpc' = "done"
  /\ UNCHANGED <<grepo, gclean, gforce, urlVars, toolVars, fsVars, runVars>>

GateNext == CanUpdate

SpecGate == GateInit /\ [][GateNext]_vars

(***************************************************************************)
(* Running sync on a working tree                                          *)
(***************************************************************************)
MaxRuns == 2

NoDir == [kind |-> "none", remote |-> <<>>, head |-> <<>>]

PlainDir == [kind |-> "plain", remote |-> <<>>, head |-> <<>>]

\* a clone of a remote repository
Cloned(kind, d) == [kind |-> kind, remote |-> Https(RepoName[d]), head |-> H0]

\* a clone made from the URL with the .git suffix
ClonedDotGit(d) ==
  [kind |-> "git", remote |-> Https(RepoName[d]) \o <<".", "git">>, head |-> H0]

\* a repository made with init, with a first commit and no remote
Local(kind) == [kind |-> kind, remote |-> <<>>, head |-> H0]

\* a repository made with init, without a commit and without a remote
Empty(kind) == [kind |-> kind, remote |-> <<>>, head |-> <<>>]

\* the reference files a library may start with, given its directory:
\* none, or one that names the repository and its revision
RefUrl(p, live) == IF live.url = NoneV THEN Https(RepoName[p]) ELSE live.url

RefChoices(p) ==
  IF ~IsDir(Parent[p]) THEN {Absent}
  ELSE IF ~isrepo(p) THEN {Absent, fullurl(Https(RepoName[p]), H0)}
  ELSE {Absent, fullurl(RefUrl(p, fromrepo(p)), H0)}

\* a reference with the abbreviated revision, and one with another revision
OtherRevs(p) ==
  IF ~isrepo(p) THEN {}
  ELSE {fullurl(RefUrl(p, fromrepo(p)), Take(H0, 1)), fullurl(RefUrl(p, fromrepo(p)), H1)}

TreeOf(r, a, b, c) ==
  /\ dirs = [R |-> r.kind, A |-> a.kind, B |-> b.kind, C |-> c.kind]
  /\ remotes = [R |-> r.remote, A |-> a.remote, B |-> b.remote, C |-> c.remote]
  /\ heads = [R |-> r.head, A |-> a.head, B |-> b.head, C |-> c.head]

\* the ignore file of a repository: as an earlier run left it if the repository
\* has references (ps), none in a fresh clone
IgnoreLines(d, ps) == [k \in 1..Len(ps) |-> relpath(d, ps[k])]

ExcludeOf(d, ps) ==
  IF isrepo(d) /\ ps # <<>> THEN scm_ignores(dirs[d], <<>>) \o IgnoreLines(d, ps) ELSE <<>>

\* .hg/hgrc: the [paths] section of a clone, and the hook of an earlier run
HgrcOf(d, ps) ==
  IF dirs[d] # "hg" THEN <<>>
  ELSE (IF remotes[d] = <<>> THEN <<>>
        ELSE << <<"[paths]">>, <<"default", "=">> \o remotes[d] >>)
       \o (IF ps # <<>> THEN << <<"[ui]">>, HgHook >> ELSE <<>>)

\* nothing modified, every reference file committed
CleanTree ==
  /\ modified = [d \in Nodes |-> FALSE]
  /\ unpushed = [d \in Nodes |-> FALSE]
  /\ detached = [d \in Nodes |-> FALSE]
  /\ committed = libfile
  /\ staged = [p \in Libs |-> libfile[p] # Absent]
  /\ exclude = [d \in Nodes |-> ExcludeOf(d, WalkLibs(<<d>>))]
  /\ hgrc = [d \in Nodes |-> HgrcOf(d, WalkLibs(<<d>>))]

Started(f) ==
  /\ stack = <<f>> /\ status = "running" /\ events = <<>> /\ runs = 1 /\ wd = f.cwd
  /\ snap = [libfile |-> libfile, exclude |-> exclude, hgrc |-> hgrc]
  /\ fs0 = [dirs |-> dirs, libfile |-> libfile, exclude |-> exclude, cmd |-> f]

SyncInit ==
  /\ UrlIdle /\ GateIdle /\ ToolIdle
  /\ \E r \in {Cloned("git", "R"), Cloned("hg", "R")},
        a \in {NoDir, PlainDir, Cloned("git", "A"), ClonedDotGit("A"), Local("git"),
               Cloned("hg", "A"), Local("hg")},
        b \in {NoDir, Cloned("git", "B")},
        c \in {NoDir, Cloned("git", "C"), Local("git")} :
       /\ a.kind = "none" => c.kind = "none"
       /\ TreeOf(r, a, b, c)
  /\ \E ta \in RefChoices("A") \cup OtherRevs("A"),
        tb \in RefChoices("B"), tc \in RefChoices("C") \cup OtherRevs("C") :
       libfile = [A |-> ta, B |-> tb, C |-> tc]
  /\ CleanTree
  /\ \E k \in BOOLEAN : Started([Frame("sync", Root) EXCEPT !.keep_refs = k])

\* the command is run again on the tree the previous run left
SyncAgain ==
  /\ status = "ok" /\ runs < MaxRuns
  /\ snap' = [libfile |-> libfile, exclude |-> exclude, hgrc |-> hgrc]
  /\ runs' = runs + 1
  /\ stack' = <<fs0.cmd>>
  /\ status' = "running"
  /\ UNCHANGED <<fsVars, events, fs0, urlVars, gateVars, toolVars>>
  /\ Chdir

SyncNext == SyncEnter \/ SyncRef \/ SyncWalk \/ SyncRecurse \/ SyncAgain

SpecSync == SyncInit /\ [][SyncNext]_vars

(***************************************************************************)
(* Running publish on a working tree                                       *)
(***************************************************************************)
\* local changes: tracked files modified in the repositories of ms, commits
\* not pushed in the repositories of us
ChangedOf(ms, us, ds) ==
  /\ modified = [d \in Nodes |-> d \in ms /\ isrepo(d)]
  /\ unpushed = [d \in Nodes |-> d \in us /\ isrepo(d)]
  /\ detached = [d \in Nodes |-> d \in ds /\ isrepo(d)]
  /\ committed = libfile
  /\ staged = [p \in Libs |-> libfile[p] # Absent]
  /\ exclude = [d \in Nodes |-> ExcludeOf(d, WalkLibs(<<d>>))]
  /\ hgrc = [d \in Nodes |-> HgrcOf(d, WalkLibs(<<d>>))]

Changed(ms, us) == ChangedOf(ms, us, {})

PublishInit ==
  /\ UrlIdle /\ GateIdle /\ ToolIdle
  /\ \E r \in {Cloned("git", "R"), Cloned("hg", "R"), Local("git")},
        a \in {NoDir, PlainDir, Cloned("git", "A"), Local("git"), Cloned("hg", "A"),
               Local("hg")},
        b \in {NoDir, Cloned("git", "B")},
        c \in {NoDir, Cloned("git", "C")} :
       /\ a.kind = "none" => c.kind = "none"
       /\ TreeOf(r, a, b, c)
  /\ \E ta \in RefChoices("A") \cup (OtherRevs("A") \ {fullurl(RefUrl("A", fromrepo("A")), Take(H0, 1))}),
        tb \in RefChoices("B"), tc \in RefChoices("C") :
       /\ isrepo("B") => tb # Absent
       /\ libfile = [A |-> ta, B |-> tb, C |-> tc]
  /\ \E ms \in SUBSET {"R", "A", "C"}, us \in SUBSET {"A"} :
       /\ \A d \in ms : isrepo(d)
       /\ \A d \in us : isrepo(d)
       /\ Changed(ms, us)
  /\ \E all \in {"False", "True"} : Started([Frame("publish", Root) EXCEPT !.all = all])

PublishNext ==
  \/ PublishEnter \/ PublishLibs \/ PublishCommit \/ PublishPush
  \/ SyncEnter \/ SyncRef \/ SyncWalk \/ SyncRecurse

SpecPublish == PublishInit /\ [][PublishNext]_vars

(***************************************************************************)
(* Running update on a working tree                                        *)
(***************************************************************************)
\* the --depth and --protocol options of a command: none given, or both
Transports == {[depth |-> "None", protocol |-> "default"], [depth |-> "1", protocol |-> "ssh"]}

UpdateInit ==
  /\ UrlIdle /\ GateIdle /\ ToolIdle
  /\ \E r \in {Cloned("git", "R"), Cloned("hg", "R"), Local("git"), Empty("git")},
        a \in {NoDir, Cloned("git", "A"), Local("git"), Local("hg")},
        b \in {NoDir, Cloned("git", "B")},
        c \in {NoDir, Cloned("git", "C")} :
       /\ a.kind = "none" => c.kind = "none"
       /\ r.remote = <<>> => (b.kind = "none" /\ c.kind = "none")
       /\ TreeOf(r, a, b, c)
  /\ \E ta \in RefChoices("A"), tb \in RefChoices("B"), tc \in RefChoices("C") :
       libfile = [A |-> ta, B |-> tb, C |-> tc]
  /\ \E ms \in SUBSET {"A", "C"}, us \in SUBSET {"A"}, ds \in {{}, {"R"}, {"A"}} :
       /\ \A d \in ms : isrepo(d)
       /\ \A d \in us : remotes[d] # <<>>
       /\ \A d \in ds : isrepo(d)
       /\ ds # {} => (ms = {} /\ us = {})
       /\ ChangedOf(ms, us, ds)
  /\ \E to \in {NoneV, H1}, clean \in BOOLEAN, force \in BOOLEAN, ignore \in BOOLEAN,
        opts \in Transports :
       /\ to # NoneV => ~(clean \/ force \/ ignore)
       /\ opts.protocol # "default" => (to = NoneV /\ ~clean)
       /\ Started([Frame("update", Root) EXCEPT !.rev = to, !.clean = clean,
                                               !.force = force, !.ignore = ignore,
                                               !.depth = opts.depth,
                                               !.protocol = opts.protocol])

UpdateNext ==
  \/ UpdateEnter \/ UpdateCheckout \/ UpdateObsolete \/ UpdateDrift \/ UpdateLibs
  \/ ImportIgnore \/ ImportClone \/ DeployEnter \/ DeployLibs
  \/ SyncEnter \/ SyncRef \/ SyncWalk \/ SyncRecurse

SpecUpdate == UpdateInit /\ [][UpdateNext]_vars

(***************************************************************************)
(* Running update on a working tree that holds untracked reference files   *)
(***************************************************************************)
\* the reference files of ut are in the working tree only: neither in HEAD
\* nor in the index of their repository
WithUntracked(ms, ut) ==
  /\ modified = [d \in Nodes |-> d \in ms /\ isrepo(d)]
  /\ unpushed = [d \in Nodes |-> FALSE]
  /\ detached = [d \in Nodes |-> FALSE]
  /\ committed = [p \in Libs |-> IF p \in ut THEN Absent ELSE libfile[p]]
  /\ staged = [p \in Libs |-> p \notin ut /\ libfile[p] # Absent]
  /\ exclude = [d \in Nodes |-> ExcludeOf(d, WalkLibs(<<d>>))]
  /\ hgrc = [d \in Nodes |-> HgrcOf(d, WalkLibs(<<d>>))]

UntrackedInit ==
  /\ UrlIdle /\ GateIdle /\ ToolIdle
  /\ \E r \in {Cloned("git", "R"), Cloned("hg", "R")},
        a \in {NoDir, Cloned("git", "A"), Cloned("hg", "A")},
        b \in {NoDir, Cloned("git", "B")},
        c \in {NoDir, Cloned("git", "C")} :
       /\ a.kind = "none" => c.kind = "none"
       /\ TreeOf(r, a, b, c)
  /\ \E ta \in RefChoices("A"), tb \in RefChoices("B"), tc \in RefChoices("C") :
       libfile = [A |-> ta, B |-> tb, C |-> tc]
  /\ \E ms \in SUBSET {"R"}, ut \in SUBSET Libs : WithUntracked(ms, ut)
  /\ \E clean \in BOOLEAN, force \in BOOLEAN :
       Started([Frame("update", Root) EXCEPT !.clean = clean, !.force = force])

SpecUntracked == UntrackedInit /\ [][UpdateNext]_vars

(***************************************************************************)
(* Running update on a working tree with a reference to a plain directory  *)
(***************************************************************************)
NestedInit ==
  /\ UrlIdle /\ GateIdle /\ ToolIdle
  /\ \E r \in {Cloned("git", "R"), Cloned("hg", "R")},
        a \in {NoDir, PlainDir, Cloned("git", "A")},
        b \in {NoDir, Cloned("git", "B")},
        c \in {NoDir, Cloned("git", "C")} :
       /\ a.kind = "none" => c.kind = "none"
       /\ TreeOf(r, a, b, c)
  /\ \E ta \in RefChoices("A") \cup {fullurl(Https(RepoName["A"]), NoneV)},
        tb \in RefChoices("B"), tc \in RefChoices("C") :
       libfile = [A |-> ta, B |-> tb, C |-> tc]
  /\ \E ms \in SUBSET {"R", "A"} : Changed(ms, {})
  /\ \E clean \in BOOLEAN, ignore \in BOOLEAN :
       Started([Frame("update", Root) EXCEPT !.clean = clean, !.ignore = ignore])

SpecNested == NestedInit /\ [][UpdateNext]_vars

(***************************************************************************)
(* Running deploy on a working tree                                        *)
(***************************************************************************)
DeployInit ==
  /\ UrlIdle /\ GateIdle /\ ToolIdle
  /\ \E r \in {Cloned("git", "R"), Cloned("hg", "R")},
        a \in {NoDir, Cloned("git", "A"), Local("git")},
        b \in {NoDir, Cloned("git", "B")},
        c \in {NoDir, Cloned("git", "C")} :
       /\ a.kind = "none" => c.kind = "none"
       /\ TreeOf(r, a, b, c)
  /\ \E ta \in RefChoices("A") \cup OtherRevs("A"),
        tb \in RefChoices("B"), tc \in RefChoices("C") :
       libfile = [A |-> ta, B |-> tb, C |-> tc]
  /\ \E ms \in SUBSET {"A"}, ds \in SUBSET {"A"} :
       /\ \A d \in ms \cup ds : isrepo(d)
       /\ ChangedOf(ms, {}, ds)
  /\ \E opts \in Transports :
       Started([Frame("deploy", Root) EXCEPT !.depth = opts.depth,
                                            !.protocol = opts.protocol])

DeployNext ==
  \/ DeployEnter \/ DeployLibs \/ ImportIgnore \/ ImportClone
  \/ UpdateEnter \/ UpdateCheckout \/ UpdateObsolete \/ UpdateDrift \/ UpdateLibs

SpecDeploy == DeployInit /\ [][DeployNext]_vars

(***************************************************************************)
(* Running ls, status, sync, deploy and publish on a working tree that may *)
(* hold references without a repository                                    *)
(***************************************************************************)
TraverseInit ==
  /\ UrlIdle /\ GateIdle /\ ToolIdle
  /\ \E r \in {Cloned("git", "R"), Cloned("hg", "R")},
        a \in {NoDir, PlainDir, Cloned("git", "A"), Cloned("hg", "A")},
        b \in {NoDir, PlainDir, Cloned("git", "B")},
        c \in {NoDir, PlainDir, Cloned("git", "C")} :
       /\ a.kind = "none" => c.kind = "none"
       /\ TreeOf(r, a, b, c)
  /\ \E ta \in RefChoices("A"), tb \in RefChoices("B"), tc \in RefChoices("C") :
       libfile = [A |-> ta, B |-> tb, C |-> tc]
  /\ \E ms \in SUBSET {"R", "C"} : Changed(ms, {})
  /\ \E op \in {"ls", "status", "sync", "deploy", "publish"}, ig \in BOOLEAN :
       /\ ig => op \in {"ls", "status"}
       /\ Started([Frame(op, Root) EXCEPT !.ignore = ig])

TraverseNext ==
  \/ ListEnter \/ ListLibs \/ StatusEnter \/ StatusLibs
  \/ SyncEnter \/ SyncRef \/ SyncWalk \/ SyncRecurse
  \/ PublishEnter \/ PublishLibs \/ PublishCommit \/ PublishPush
  \/ DeployEnter \/ DeployLibs \/ ImportIgnore \/ ImportClone
  \/ UpdateEnter \/ UpdateCheckout \/ UpdateObsolete \/ UpdateDrift \/ UpdateLibs

SpecTraverse == TraverseInit /\ [][TraverseNext]_vars

(***************************************************************************)
(* Locating the program from a directory of a working tree                 *)
(***************************************************************************)
\* a tree on which no command is running
Quiet(start) ==
  /\ libfile = [p \in Libs |-> Absent] /\ CleanTree
  /\ stack = <<>> /\ status = "idle" /\ events = <<>> /\ runs = 0 /\ wd = start
  /\ snap = [libfile |-> libfile, exclude |-> exclude, hgrc |-> hgrc]
  /\ fs0 = [dirs |-> dirs, libfile |-> libfile, exclude |-> exclude,
            cmd |-> Frame("none", start)]

ProgramInit ==
  /\ UrlIdle /\ GateIdle
  /\ \E r \in {PlainDir, Cloned("git", "R"), Cloned("hg", "R")},
        a \in {NoDir, PlainDir, Cloned("git", "A"), Cloned("hg", "A")},
        b \in {NoDir, Cloned("git", "B")},
        c \in {NoDir, PlainDir, Cloned("git", "C")} :
       /\ a.kind = "none" => c.kind = "none"
       /\ TreeOf(r, a, b, c)
  /\ marker \in SUBSET {d \in Nodes : IsDir(d)}
  /\ \E start \in {d \in Nodes : IsDir(d)} : Quiet(start)
  /\ tpc = "start" /\ program = Assumed(wd)
  /\ cfg = <<>> /\ cfg0 = <<>> /\ lastset = [k \in {} |-> NoneV]

ProgramNext == GetProgram

SpecProgram == ProgramInit /\ [][ProgramNext]_vars

(***************************************************************************)
(* scm.ignores, scm.ignore and scm.unignore called on the program          *)
(***************************************************************************)
\* the calls made on one ignore file
MaxCalls == 3

\* the library paths relpath() hands to ignore and unignore: os.path joins
\* with "/" or, on Windows, with "\"
IgnoredPaths ==
  {<<"liba">>, <<"libb">>, <<"liba", "/", "libc">>, <<"liba", "\\", "libc">>}

\* one more call on the ignore file of the program: the lists before the
\* last call and before the last two calls are kept
Called_on(ev, file) ==
  /\ status = "idle" /\ isrepo(Root) /\ Len(events) < MaxCalls
  /\ events' = Append(events, Event(ev, file, Root))
  /\ snap' = [snap EXCEPT !.exclude = exclude]
  /\ fs0' = [fs0 EXCEPT !.exclude = snap.exclude]
  /\ UNCHANGED <<dirs, libfile, remotes, heads, modified, committed, staged,
                 unpushed, detached, stack, status, runs, wd,
                 urlVars, gateVars, toolVars>>

\* Hg.ignores (315-337) and Git.ignores (495-497)
Ignores ==
  /\ Called_on("ignores", <<>>)
  /\ exclude' = [exclude EXCEPT ![Root] = scm_ignores(dirs[Root], @)]
  /\ hgrc' = [hgrc EXCEPT ![Root] = IF dirs[Root] = "hg" THEN HgrcWithHook(@) ELSE @]

\* Hg.ignore (339-368) and Git.ignore (499-509)
Ignore ==
  \E file \in IgnoredPaths :
    /\ Called_on("ignore", file)
    /\ exclude' = [exclude EXCEPT ![Root] = scm_ignore(dirs[Root], @, file)]
    /\ hgrc' = [hgrc EXCEPT ![Root] = IF dirs[Root] = "hg" THEN HgrcWithHook(@) ELSE @]

\* Hg.unignore (370-387) and Git.unignore (511-525)
Unignore ==
  \E file \in IgnoredPaths :
    /\ Called_on("unignore", file)
    /\ exclude' = [exclude EXCEPT ![Root] = scm_unignore(@, file)]
    /\ UNCHANGED hgrc

IgnoreInit ==
  /\ UrlIdle /\ GateIdle /\ ToolIdle
  /\ \E r \in {Cloned("git", "R"), Cloned("hg", "R")} : TreeOf(r, NoDir, NoDir, NoDir)
  /\ Quiet(Root)

IgnoreNext == Ignores \/ Ignore \/ Unignore

SpecIgnore == IgnoreInit /\ [][IgnoreNext]_vars

(***************************************************************************)
(* Setting values in a config file                                         *)
(***************************************************************************)
\* the longest config file the calls start from
MaxLines == 3

\* the lines a config file may hold: values of the two keys, a key the
\* program does not know, and a line that is not key=value
CfgLines ==
  {<<"TARGET", "=", "K64F">>, <<"TARGET", "=", "LPC1768">>,
   <<"TOOLCHAIN", "=", "ARM">>, <<"ROOT", "=", ".">>, <<"#", "note">>}

CfgFiles == UNION {[1..n -> CfgLines] : n \in 0..MaxLines}

ConfigInit ==
  /\ UrlIdle /\ GateIdle /\ TreeIdle
  /\ marker = {Root} /\ tpc = "config" /\ program = Assumed(Root)
  /\ cfg \in CfgFiles /\ cfg0 = cfg
  /\ lastset = [k \in CfgKeys |-> NoneV]

ConfigNext == SetCfg

SpecConfig == ConfigInit /\ [][ConfigNext]_vars

(***************************************************************************)
(* Claims                                                                  *)
(***************************************************************************)
\* the library is backed by a remote: not local-only and its url is known
RemoteBacked(repo) == ~repo.is_local /\ repo.url # NoneV

CanonIdempotent ==
  (upc = "twice" /\ MatchesGrammar(loc)) => twice = once

\* C9: the reference file written for a repository with url u and revision h
\* reads back as a repository with url u and revision h
ReferenceRoundTrip ==
  upc = "read" => back.ok /\ back.url = rurl /\ back.hash = rev

\* the tree the command was first started on has its references and its
\* repository directories paired one to one
Paired0 ==
  \A p \in Libs : (fs0.libfile[p] # Absent) <=> (fs0.dirs[p] \in {"git", "hg"})

\* C5: when sync is run on a tree whose references and repositories are
\* paired and is then run again, the second run leaves every reference file,
\* every ignore file and every hgrc with the content the first run left
SyncIdempotent ==
  (fs0.cmd.op = "sync" /\ runs >= 2 /\ status = "ok" /\ Paired0)
    => (libfile = snap.libfile /\ exclude = snap.exclude /\ hgrc = snap.hgrc)

SyncTwiceOnPaired ==
  /\ fs0.cmd.op = "sync" /\ runs = 2 /\ status = "ok" /\ Paired0
  /\ dirs["R"] = "hg" /\ libfile["A"] # Absent /\ libfile["C"] # Absent
  /\ libfile["A"] # fs0.libfile["A"]

\* the walk of sync found the repository directory d without a reference
Discovered(d, n) ==
  \E k \in 1..Len(events) : events[k] = Event("discover", d, n)

\* the reference of p names the live repository: same URL, and the same
\* revision or an abbreviation of it
NamesLive(stored, live) ==
  /\ stored.ok /\ stored.url = live.url
  /\ \/ stored.hash = live.hash
     \/ /\ Truthy(stored.hash) /\ Truthy(live.hash)
        /\ stored.hash = Take(live.hash, Len(stored.hash))

ValidReference(p) ==
  /\ libfile[p] # Absent /\ isrepo(p)
  /\ NamesLive(fromurl(libfile[p]), fromrepo(p))

\* C6: a repository directory that sync found without a reference has a
\* reference file that reads as a reference, an entry in the ignore file of
\* the node, and the reference is in the index; and no step changes a
\* reference that names the live URL and revision of its repository
DiscoveredGetReferences ==
  /\ [](\A d \in Libs, n \in Nodes :
          (fs0.cmd.op = "sync" /\ runs = 1 /\ Discovered(d, n))
            => /\ fromurl(libfile[d]).ok
               /\ HasLine(exclude[n], relpath(n, d))
               /\ staged[d])
  /\ [][\A p \in Libs :
          (fs0.cmd.op = "sync" /\ ValidReference(p)) => libfile'[p] = libfile[p]]_vars

IsAbove(n, p) == n = Parent[p] \/ (Parent[p] # Root /\ n = Parent[Parent[p]])

\* C7: sync deletes a reference only if its directory does not exist and
\* keep_refs is false; and when a sync with keep_refs false has succeeded,
\* the references that had no directory are gone and in no ignore file, every
\* reference has a repository directory and every repository a reference
SyncPairsReferences ==
  /\ [][\A p \in Libs :
          (fs0.cmd.op = "sync" /\ libfile[p] # Absent /\ libfile'[p] = Absent)
            => (~IsDir(p) /\ ~fs0.cmd.keep_refs)]_vars
  /\ []((fs0.cmd.op = "sync" /\ status = "ok" /\ ~fs0.cmd.keep_refs)
          => \A p \in Libs :
               /\ (libfile[p] # Absent) <=> isrepo(p)
               /\ (fs0.libfile[p] # Absent /\ fs0.dirs[p] = "none")
                    => /\ libfile[p] = Absent
                       /\ \A n \in Nodes : IsAbove(n, p) => ~HasLine(exclude[n], relpath(n, p)))

StaleRemovedAndDiscovered ==
  /\ fs0.cmd.op = "sync" /\ status = "ok" /\ ~fs0.cmd.keep_refs /\ runs = 1
  /\ fs0.libfile["B"] # Absent /\ fs0.dirs["B"] = "none" /\ libfile["B"] = Absent
  /\ HasLine(fs0.exclude["R"], relpath("R", "B"))
  /\ Discovered("A", "R") /\ libfile["A"] # Absent

\* the event e is a step publish takes in the node n itself: its sync
\* (started, a reference written, removed or discovered), its commit, its push
OwnStep(e, n) ==
  \/ e.ev \in {"sync", "write", "unref", "discover"} /\ e.by = n
  \/ e.ev \in {"commit", "push"} /\ e.node = n

Happened(e) == \E k \in 1..Len(events) : events[k] = e

Times(es, e) == Cardinality({k \in 1..Len(es) : es[k] = e})

\* every library of a node whose publish has reached its own sync has been
\* published
ChildrenPublished ==
  \A k \in 1..Len(stack) :
    (stack[k].op = "publish" /\ stack[k].pc \in {"commit", "push"})
      => \A m \in 1..Len(stack[k].libs) :
           Happened(Event("published", stack[k].libs[m].node, stack[k].node))

\* once a node has taken a step of its own, no library of it starts or ends
\* its publish or takes a step of its own
ChildrenBeforeParent ==
  \A i \in 1..Len(events), j \in 1..Len(events), n \in Nodes, c \in Libs :
    (i < j /\ OwnStep(events[i], n) /\ Happened(Event("publish", c, n)))
      => /\ events[j] # Event("publish", c, n)
         /\ events[j] # Event("published", c, n)
         /\ ~OwnStep(events[j], c)

\* C10: publish takes the steps of a node itself (sync, commit, push) only
\* when every library of the node has been published, and no step of a
\* library comes after them; a step commits only in a dirty working tree
\* and pushes only a repository with outgoing commits
PublishChildrenFirst ==
  /\ [](fs0.cmd.op = "publish" => (ChildrenPublished /\ ChildrenBeforeParent))
  /\ [][\A n \in Nodes :
          /\ Times(events', Event("commit", n, n)) > Times(events, Event("commit", n, n))
               => dirty(n)
          /\ Times(events', Event("push", n, n)) > Times(events, Event("push", n, n))
               => unpushed[n]]_vars

PublishedBottomUp ==
  /\ fs0.cmd.op = "publish" /\ status = "ok"
  /\ Happened(Event("published", "C", "A")) /\ Happened(Event("published", "A", "R"))
  /\ Happened(Event("commit", "C", "C")) /\ Happened(Event("push", "C", "C"))
  /\ Happened(Event("commit", "A", "A")) /\ Happened(Event("push", "A", "A"))
  /\ Happened(Event("commit", "R", "R")) /\ Happened(Event("push", "R", "R"))
  /\ fs0.cmd.all = "True" /\ ~Happened(Event("commit", "B", "B"))

\* the library the obsolescence pass or the drift pass of update is at
AtLibrary(pc) == Running("update", pc) /\ Top.i <= Len(Top.libs)

\* the directory d is there before the step and gone after it
Removed(d) == dirs[d] # "none" /\ dirs'[d] = "none"

\* C2: in the obsolescence pass of update a directory goes only with the
\* library the pass is at, and that library is one of the references read
\* before the checkout whose reference file is absent after it; a library
\* of those references whose reference file is still present keeps its
\* directory, whatever clean, force and ignore are.
ObsoleteOnlyUnreferenced ==
  [][Running("update", "obsolete") =>
       /\ \A d \in Nodes :
            Removed(d) => /\ Top.i <= Len(Top.libs)
                          /\ libfile[Top.libs[Top.i].node] = Absent
                          /\ IsUnder(d, Top.libs[Top.i].node)
       /\ \A k \in 1..Len(Top.libs) :
            libfile[Top.libs[k].node] # Absent
              => dirs'[Top.libs[k].node] = dirs[Top.libs[k].node]]_vars

\* the pass removed A, whose reference the checkout dropped, and left B,
\* whose reference is there, under --clean --force
ObsoleteRemovedReferencedKept ==
  /\ fs0.cmd.op = "update" /\ fs0.cmd.clean /\ fs0.cmd.force
  /\ Happened(Event("remove_obsolete", "A", "R"))
  /\ dirs["B"] = "git" /\ libfile["B"] # Absent /\ fs0.libfile["B"] # Absent
  /\ status = "ok"

\* the answer of the gate for the library p
GateOf(p, f) == can_update(GateRepo(fromrepo(p), p), f.clean, f.force)

\* the library the pass is at is one it tries to remove
Candidate(p, l) ==
  /\ isrepo(p) /\ LibsValid(getlibs(p))
  /\ \/ Top.pc = "obsolete" /\ IsObsolete(p)
     \/ Top.pc = "drift" /\ l.url # fromrepo(p).url

\* C3: in the obsolescence and drift passes of update a directory is
\* removed only when can_update(clean, force) allowed it for the library
\* the pass is at; when the gate refuses, with ignore the directories stay,
\* a warning is issued and the pass goes on to the next library, without
\* ignore the update ends in a fatal error and the directories stay.
RemovalOnlyIfGateAllows ==
  [][(AtLibrary("obsolete") \/ AtLibrary("drift")) =>
       /\ (\E d \in Nodes : Removed(d))
            => /\ Candidate(Top.libs[Top.i].node, Top.libs[Top.i])
               /\ GateOf(Top.libs[Top.i].node, Top).ok
       /\ (Candidate(Top.libs[Top.i].node, Top.libs[Top.i])
           /\ ~GateOf(Top.libs[Top.i].node, Top).ok)
            => /\ dirs' = dirs
               /\ Top.ignore
                    => /\ events' = Append(events, Event("warn", Top.libs[Top.i].node,
                                                         Top.node))
                       /\ status' = "running"
                       /\ stack' = Step(Top)
               /\ ~Top.ignore => status' = "failed"]_vars

\* the gate refused the removal of the local library A under --ignore: A is
\* still there, the warning was issued and the update went on to its end
RefusedKeptAndWarned ==
  /\ fs0.cmd.op = "update" /\ fs0.cmd.ignore /\ ~fs0.cmd.force
  /\ Happened(Event("warn", "A", "R"))
  /\ dirs["A"] = "git" /\ remotes["A"] = <<>>
  /\ status = "ok"

\* C4: after the gate refused the removal of a library under --ignore, the
\* update does no checkout, discard, removal or import in the directory of
\* that library or in the libraries nested in it.
RefusedLibraryLeftAsIs ==
  \A j \in 1..Len(events) : \A k \in (j + 1)..Len(events) :
    (events[j].ev = "warn" /\ IsUnder(events[k].node, events[j].node))
      => events[k].ev \notin {"checkout", "discard", "remove_obsolete", "remove_drift",
                              "import"}

\* the repository d has no remote
LocalOnly(d) == isrepo(d) /\ remotes[d] = <<>>

\* publish was called in the directory d
PublishCalled(d) ==
  IF d = Root THEN fs0.cmd.op = "publish"
  ELSE \E n \in Nodes : Happened(Event("publish", d, n))

\* C11: when publish is called in a repository that has no remote, of
\* either backend, the run does not go on (it ends in a fatal error) and
\* there is no commit and no push in that repository, in the libraries
\* inside it, or in the repositories it lies in.
LocalPublishRefused ==
  fs0.cmd.op = "publish" =>
    \A d \in Nodes :
      (LocalOnly(d) /\ PublishCalled(d)) =>
        /\ status \in {"running", "failed"}
        /\ \A n \in Nodes :
             (IsUnder(n, d) \/ IsUnder(d, n)) =>
               /\ ~Happened(Event("commit", n, n))
               /\ ~Happened(Event("push", n, n))

\* C12: every push of a publish run uses the all flag of the command: with
\* --all every push is of all branches, without it every push is of the
\* current branch.
PushUsesCommandFlag ==
  fs0.cmd.op = "publish" =>
    \A k \in 1..Len(events) :
      /\ events[k].ev = "push_branch" => fs0.cmd.all # "True"
      /\ events[k].ev = "push_all" => fs0.cmd.all = "True"

\* the call that a step of the materialize pass makes
Called == stack'[Len(stack')]

\* C13: in the materialize pass of update, the update that recurses into
\* an existing library is pinned to the hash of its reference and gets the
\* clean, force, ignore, depth and protocol of the call that recurses, and
\* the import of a missing library gets its depth and protocol.
MaterializeHandsDown ==
  [][(Running("update", "libs") /\ Len(stack') = Len(stack) + 1) =>
       /\ Called.depth = Top.depth
       /\ Called.protocol = Top.protocol
       /\ Called.op = "update" =>
            /\ Called.rev = Top.libs[Top.i].hash
            /\ Called.clean = Top.clean
            /\ Called.force = Top.force
            /\ Called.ignore = Top.ignore]_vars

\* the library p is there and is a clone of the URL its reference names
AsReferenced(p) == isrepo(p) /\ fromlib(libfile[p]).url = fromrepo(p).url

\* C14: the drift and materialize passes of update work on the references
\* as they are on disk after the checkout; a library that is a repository
\* whose URL is not the one of its reference and that the gate allows is
\* removed in the drift pass; and when an update without ignore ends well,
\* every library that has a reference is there, a repository whose URL is
\* the URL of its reference (a library the drift pass removed was imported
\* again).
DriftReimported ==
  /\ []((status = "running" /\ stack # <<>> /\ Top.op = "update"
           /\ Top.pc \in {"drift", "libs", "ignore"})
          => Top.libs = getlibs(Top.node))
  /\ []((fs0.cmd.op = "update" /\ status = "ok" /\ ~fs0.cmd.ignore)
          => \A p \in Libs : libfile[p] # Absent => AsReferenced(p))
  /\ [][(AtLibrary("drift") /\ Candidate(Top.libs[Top.i].node, Top.libs[Top.i])
                            /\ GateOf(Top.libs[Top.i].node, Top).ok)
          => dirs'[Top.libs[Top.i].node] = "none"]_vars

\* the reference of A names another URL after the checkout: A was removed
\* in the drift pass and imported from the new URL
DriftedLibraryReplaced ==
  /\ fs0.cmd.op = "update" /\ status = "ok" /\ ~fs0.cmd.ignore
  /\ \E j \in 1..Len(events) : \E k \in (j + 1)..Len(events) :
       events[j] = Event("remove_drift", "A", "R") /\ events[k] = Event("import", "A", "R")
  /\ AsReferenced("A") /\ fromrepo("A").url = Https("r")

\* the events of a backend update, a removal or an import
Touching == {"checkout", "discard", "remove_obsolete", "remove_drift", "import"}

\* the detached-HEAD error is raised in the step
RaisesDetached(n) == events' = Append(events, Event("detached", n, n))

LocalUnpinnedSkipped ==
  [][(/\ Running("update", "repo") /\ findrepo(Top.cwd) # "none"
      /\ LibsValid(getlibs(findrepo(Top.cwd)))
      /\ LocalOnly(findrepo(Top.cwd)) /\ Top.rev = NoneV
      /\ ~isdetached(findrepo(Top.cwd)))
       => /\ events' = events
          /\ UNCHANGED <<libfile, modified, heads, staged>>
          /\ status' = "running" /\ stack' # <<>>
          /\ Called.pc = "obsolete"]_vars

\* the library a loop over the references is at
AtLib == Top.libs[Top.i]

\* C17: deploy goes through the references of its repository: in a library
\* whose directory is a repository it calls update, not top-level and
\* pinned to the hash of the reference; a library whose directory is
\* missing it imports from the URL and hash of the reference, and the
\* import leaves a clone of that URL at that revision, which is then
\* listed in the ignore file of the repository; and when a deploy ends
\* well, every reference on disk, at every depth, has a directory that is
\* a repository.
DeployMaterializes ==
  /\ [][(Running("deploy", "libs") /\ Top.i <= Len(Top.libs)) =>
          /\ isrepo(AtLib.node)
               => /\ Len(stack') = Len(stack) + 1
                  /\ Called.op = "update" /\ Called.cwd = AtLib.node
                  /\ Called.top = "False" /\ Called.rev = AtLib.hash
          /\ ~IsDir(AtLib.node)
               => /\ Len(stack') = Len(stack) + 1
                  /\ Called.op = "import" /\ Called.cwd = AtLib.node
                  /\ Called.url = fullurl(AtLib.url, AtLib.hash)
                  /\ stack'[Len(stack)].pc = "ignore"]_vars
  /\ [][(Running("import", "enter") /\ status' = "running") =>
          /\ dirs'[Top.cwd] \in {"git", "hg"}
          /\ remotes'[Top.cwd] = formaturl(fromurl(Top.url).url, Top.protocol)
          /\ heads'[Top.cwd] = Expand(fromurl(Top.url).hash)]_vars
  /\ [][Running("deploy", "ignore") =>
          HasLine(exclude'[Top.node], relpath(Top.node, AtLib.node))]_vars
  /\ []((fs0.cmd.op = "deploy" /\ status = "ok")
          => \A p \in Libs : libfile[p] # Absent => isrepo(p))

\* deploy imported the missing A and, inside it, the missing C, and
\* updated B, which was there
DeployedTwoLevels ==
  /\ fs0.cmd.op = "deploy" /\ status = "ok"
  /\ fs0.dirs["A"] = "none" /\ fs0.dirs["B"] = "git"
  /\ Happened(Event("import", "A", "R")) /\ Happened(Event("import", "C", "A"))
  /\ Happened(Event("checkout", "B", "B"))
  /\ isrepo("A") /\ isrepo("C") /\ HasLine(exclude["R"], relpath("R", "A"))

\* C20: when the revision of a reference cannot be checked out in the
\* clone of a library, the failure is that of the library only: the
\* traversal goes on, with the call that imported the library still there
\* to import the other references of its repository.
RevisionFailureLocal ==
  [][\A p \in Libs : \A n \in Nodes :
       events' = Append(events, Event("norev", p, n))
         => /\ status' = "running"
            /\ stack' # <<>>]_vars

OwnershipExclusive ==
  upc = "detected" => Cardinality(owners) <= 1

\* the loop over the references of the command op is at the library p, whose
\* path holds no repository
Meets(op, pc, p) ==
  /\ Running(op, pc) /\ Top.i <= Len(Top.libs)
  /\ Top.libs[Top.i].node = p /\ ~check_repo(p)

\* the library is reported as a warning and skipped, and the loop goes on
WarnedAndSkipped(p) ==
  /\ status' = "running" /\ stack' = Step(Top)
  /\ events' = Append(events, Event("warn", p, Top.node))

\* C21 as stated: ls and status report a reference whose path holds no
\* repository (a plain directory, or no directory) as a warning, skip the
\* library and go on with the remaining ones, while sync, deploy and publish
\* end with a fatal error
StaleReferenceWarned ==
  [][\A p \in Libs :
       /\ (Meets("ls", "refs", p) \/ Meets("status", "refs", p)) => WarnedAndSkipped(p)
       /\ (Meets("sync", "refs", p) \/ Meets("deploy", "libs", p)
             \/ Meets("publish", "refs", p)) => status' = "failed"]_vars

\* C21: ls and status run with the ignore option report a reference whose
\* path holds no repository as a warning, skip the library and go on, and
\* without the option end with a fatal error; publish ends with a fatal
\* error, and so do sync and deploy when the path holds a directory that is
\* not a repository
StaleReferencePolicy ==
  [][\A p \in Libs :
       /\ (Meets("ls", "refs", p) \/ Meets("status", "refs", p))
            => IF Top.ignore THEN WarnedAndSkipped(p) ELSE status' = "failed"
       /\ Meets("publish", "refs", p) => status' = "failed"
       /\ ((Meets("sync", "refs", p) \/ Meets("deploy", "libs", p)) /\ IsDir(p))
            => status' = "failed"]_vars

\* ls -I has warned about liba, whose directory is not a repository, has
\* gone on to list libb, and has ended well
WarnedAndListedOn ==
  /\ fs0.cmd.op = "ls" /\ fs0.cmd.ignore /\ status = "ok"
  /\ ~check_repo("A") /\ IsDir("A")
  /\ \E j \in 1..Len(events), k \in 1..Len(events) :
       /\ j < k
       /\ events[j] = Event("warn", "A", "R")
       /\ events[k] = Event("ls", "B", "R")

\* C22: a push that exits with a status other than zero aborts publish: once
\* a push has failed the command is over with a failure, it neither goes on
\* nor completes successfully
FailedPushAborts ==
  (\E k \in 1..Len(events) : events[k].ev \in {"push_rejected", "push_fatal"})
    => status \in {"failed", "crashed"}

RECURSIVE MarkerAbove(_)
\* the first directory with the config file, walking upward from d
MarkerAbove(d) ==
  IF d \in marker THEN d ELSE IF d = Root THEN "none" ELSE MarkerAbove(Parent[d])

\* C23: get_program returns the first directory on the way up that holds the
\* config file; without one, the nearest repository (the start directory or
\* an ancestor); without either, the start directory flagged as assumed
ProgramLocated ==
  tpc = "done" =>
    /\ program.path = IF MarkerAbove(wd) # "none" THEN MarkerAbove(wd)
                      ELSE IF findrepo(wd) # "none" THEN findrepo(wd)
                      ELSE wd
    /\ program.is_cwd = (MarkerAbove(wd) = "none" /\ findrepo(wd) = "none")

\* the call f is about to return: deploy after its last library, sync after
\* its last recursive call
Completing(f) ==
  \/ f.op = "deploy" /\ f.pc = "libs" /\ f.i > Len(f.libs)
  \/ f.op = "sync" /\ f.pc = "recurse" /\ (~f.recursive \/ f.i > Len(f.libs))

\* the ignore file of n holds the standard patterns and a line for each
\* library of ls that is on disk
Covers(n, ls) ==
  /\ \A k \in 1..Len(ignores) : HasLine(exclude[n], ignores[k])
  /\ \A k \in 1..Len(ls) :
       IsDir(ls[k].node) => HasLine(exclude[n], relpath(n, ls[k].node))

\* C24: when sync or deploy completes at a node, the node's exclude file
\* holds every standard ignore pattern and one line for each library
\* directory under the node, the libraries that were on disk before the
\* command started included
ExcludeComplete ==
  (status = "running" /\ stack # <<>> /\ Completing(Top)) => Covers(Top.node, Top.libs)

\* the last two calls on the ignore file were e1 and then e2, on the path
LastTwo(e1, e2, file) ==
  /\ Len(events) >= 2
  /\ events[Len(events) - 1] = Event(e1, file, Root)
  /\ events[Len(events)] = Event(e2, file, Root)

\* the lines of the list that are an entry for the path
EntriesFor(lines, file) ==
  LET IsEntry(l) == l = file \/ l = Slashes(file) IN SelectSeq(lines, IsEntry)

\* the lines of the list that are not
OtherLines(lines, file) ==
  LET IsOther(l) == l # file /\ l # Slashes(file) IN SelectSeq(lines, IsOther)

\* C25: ignore and unignore are idempotent exact-line operations for both
\* backends and every library path, a path written with "\" included:
\* ignore(p) twice leaves one entry for p, unignore(p) twice is unignore(p)
\* once, ignore(p) then unignore(p) gives back the list as it was, and the
\* other lines are never touched
IgnoreAlgebra ==
  \A file \in IgnoredPaths :
    /\ LastTwo("ignore", "ignore", file) =>
         exclude[Root] = snap.exclude[Root] /\ Len(EntriesFor(exclude[Root], file)) = 1
    /\ LastTwo("unignore", "unignore", file) => exclude[Root] = snap.exclude[Root]
    /\ (LastTwo("ignore", "unignore", file) /\ EntriesFor(fs0.exclude[Root], file) = <<>>)
         => exclude[Root] = fs0.exclude[Root]
    /\ (events # <<>> /\ events[Len(events)] \in
            {Event("ignore", file, Root), Event("unignore", file, Root)})
         => OtherLines(exclude[Root], file) = OtherLines(snap.exclude[Root], file)

\* the reference file of p is in the working tree and not tracked
UntrackedRef(p) == libfile[p] # Absent /\ committed[p] = Absent /\ ~staged[p]

\* update has just made the backend checkout in the repository n
CheckedOut(n) ==
  /\ Running("update", "obsolete") /\ Top.node = n /\ Top.i = 1
  /\ events # <<>>
  /\ events[Len(events)] \in {Event("checkout", n, n), Event("discard", n, n)}

\* C26: after the backend checkout of a node, and before the pass over the
\* libraries without a reference, no untracked reference file is left in
\* the node's repository, whatever the backend and however many there were
UntrackedReferencesRemoved ==
  \A n \in Nodes :
    CheckedOut(n) => \A p \in Libs : Owner(p) = n => ~UntrackedRef(p)

\* C27: sync at a node writes reference files only for repositories that
\* are not inside another repository of that node: a repository nested in a
\* library, with or without a reference file of its own, is left to the
\* sync that runs in that library
NestedLeftToLibrary ==
  fs0.cmd.op = "sync" =>
    \A k \in 1..Len(events) :
      events[k].ev \in {"write", "discover"} => Owner(events[k].node) = events[k].by

\* the lines of the file that are lines of the key
LinesOf(lines, var) == LET Is(l) == CfgKey(l) = var IN SelectSeq(lines, Is)

\* the lines of the file that are not lines of a key that was set
Untouched(lines) ==
  LET Is(l) == CfgKey(l) \notin {k \in CfgKeys : lastset[k] # NoneV}
  IN  SelectSeq(lines, Is)

\* C28: from any config file and after any sequence of set_cfg calls,
\* get_cfg(k) is the value of the latest set_cfg(k, v), the file holds one
\* line for k, and the lines of the other keys, known or not, are the ones
\* the file started with, in their order
ConfigStore ==
  /\ \A k \in CfgKeys :
       lastset[k] # NoneV =>
         /\ get_cfg(cfg, k, NoneV) = lastset[k]
         /\ Len(LinesOf(cfg, k)) = 1
  /\ Untouched(cfg) = Untouched(cfg0)

\* C29: every call of update made for a reference acts on the repository
\* rooted at the directory of that reference, never on a repository above
\* it, also when that directory is not a repository; and the update of a
\* library never changes the revision another repository has checked out
UpdateActsOnOwnRepository ==
  /\ [](\A k \in 1..Len(stack) :
          (stack[k].op = "update" /\ stack[k].node # "none")
            => stack[k].node = stack[k].cwd)
  /\ [][(Running("update", "repo") /\ Top.top = "False")
          => \A n \in Nodes : n # Top.cwd => heads'[n] = heads[n]]_vars

====
